---- MODULE Spec2Model ----
(***************************************************************************)
(* Model of the Onshape -> MuJoCo exploration scripts.                     *)
(*                                                                         *)
(*   converter.py         main(): the one-shot conversion of an assembly   *)
(*                        definition and a mesh manifest into robot.xml    *)
(*   explore_assembly.py  analyze_for_mujoco(): the mate -> joint mapping  *)
(*                        (the parts -> bodies half reads no mate and is   *)
(*                        left out)                                        *)
(*   converter.py         transform_to_pos_quat() called on its own, on    *)
(*                        the 24 rotations with integer entries            *)
(*   onshape_client.py    OnshapeClient.get_binary(): the request, the     *)
(*                        307 redirect and the headers signed for each     *)
(*   explore_assembly.py  explore_transforms(): the transform table and    *)
(*                        the positions printed                            *)
(*   explore_assembly.py  export_meshes(): the STL exports and the         *)
(*                        manifest                                         *)
(*   viewer.py            the Flask routes over the module globals, one    *)
(*                        request at a time                                *)
(*                                                                         *)
(* Each function has its own variables and its own specification (Spec,    *)
(* SpecAnalyze, SpecTransform, SpecClient, SpecExplore, SpecExport,        *)
(* SpecViewer); the others are idle in it.                                 *)
(*                                                                         *)
(* Lengths are integers in units of 1e-7 m; a formatted number ("%.6f")    *)
(* is a pair <<sign, micro-units>>.  Rotation blocks are integer matrices  *)
(* (signed permutations), whose quaternions are kept unnormalised.         *)
(***************************************************************************)
EXTENDS Integers, Sequences, FiniteSets, TLC

\* ------------------------------------------------------------------------
\* Bounds of the model
\* ------------------------------------------------------------------------

\* longest list of mate features handed to converter.main
MaxMates == 1

\* longest feature list handed to analyze_for_mujoco
MaxFeatures == 3

\* ------------------------------------------------------------------------
\* Python values
\* ------------------------------------------------------------------------

\* Python's None, for variables that hold an instance id or None
None == "None"

\* a local variable that has not been assigned yet
Unbound == "unbound"

\* ------------------------------------------------------------------------
\* Strings: str.lower() and the `in` substring test
\* ------------------------------------------------------------------------

\* the spelling of every string whose characters the code inspects
Chars(s) ==
    CASE s = "Motor"            -> <<"M","o","t","o","r">>
      [] s = "Horn"             -> <<"H","o","r","n">>
      [] s = "Joint #1"         -> <<"J","o","i","n","t"," ","#","1">>
      [] s = "Joint #2"         -> <<"J","o","i","n","t"," ","#","2">>
      [] s = "joint_1"          -> <<"j","o","i","n","t","_","1">>
      [] s = "joint_2"          -> <<"j","o","i","n","t","_","2">>
      [] s = "Base"             -> <<"B","a","s","e">>
      [] s = "Motor horn"       -> <<"M","o","t","o","r"," ","h","o","r","n">>
      [] s = "motor"            -> <<"m","o","t","o","r">>
      [] s = "horn"             -> <<"h","o","r","n">>
      [] s = "joint #1"         -> <<"j","o","i","n","t"," ","#","1">>
      [] s = "joint #2"         -> <<"j","o","i","n","t"," ","#","2">>
      [] s = "mateType"         -> <<"m","a","t","e","T","y","p","e">>
      [] s = "limitAxialZMin"   -> <<"l","i","m","i","t","A","x","i","a","l","Z","M","i","n">>
      [] s = "LimitsEnabled"    -> <<"L","i","m","i","t","s","E","n","a","b","l","e","d">>
      [] s = "limit"            -> <<"l","i","m","i","t">>
      [] OTHER                  -> <<>>

\* str.lower() on one character
LowerChar(c) ==
    CASE c = "A" -> "a" [] c = "B" -> "b" [] c = "C" -> "c" [] c = "D" -> "d"
      [] c = "E" -> "e" [] c = "F" -> "f" [] c = "G" -> "g" [] c = "H" -> "h"
      [] c = "I" -> "i" [] c = "J" -> "j" [] c = "K" -> "k" [] c = "L" -> "l"
      [] c = "M" -> "m" [] c = "N" -> "n" [] c = "O" -> "o" [] c = "P" -> "p"
      [] c = "Q" -> "q" [] c = "R" -> "r" [] c = "S" -> "s" [] c = "T" -> "t"
      [] c = "U" -> "u" [] c = "V" -> "v" [] c = "W" -> "w" [] c = "X" -> "x"
      [] c = "Y" -> "y" [] c = "Z" -> "z"
      [] OTHER -> c

\* str.lower() on a spelling
Lower(cs) == [i \in 1..Len(cs) |-> LowerChar(cs[i])]

\* sub in cs, on spellings
Contains(sub, cs) ==
    \E i \in 1..(Len(cs) - Len(sub) + 1) : SubSeq(cs, i, i + Len(sub) - 1) = sub

\* 'sub' in name.lower()
InLower(sub, name) == Contains(Chars(sub), Lower(Chars(name)))

\* ------------------------------------------------------------------------
\* Python dicts built by a comprehension over a list of <<key, value>> pairs
\* ------------------------------------------------------------------------

RECURSIVE DictKeys(_)
\* the keys in iteration order: each key at the place of its first insertion
DictKeys(pairs) ==
    IF pairs = <<>> THEN <<>>
    ELSE LET front == DictKeys(SubSeq(pairs, 1, Len(pairs) - 1))
             k     == pairs[Len(pairs)][1]
         IN  IF \E i \in 1..Len(front) : front[i] = k THEN front
             ELSE Append(front, k)

\* key in d
HasKey(pairs, k) == \E i \in 1..Len(pairs) : pairs[i][1] = k

\* d[key]: the value inserted last under the key
DictGet(pairs, k) ==
    LET last == CHOOSE i \in 1..Len(pairs) :
                    /\ pairs[i][1] = k
                    /\ \A j \in (i+1)..Len(pairs) : pairs[j][1] # k
    IN  pairs[last][2]

\* ------------------------------------------------------------------------
\* transform_to_pos_quat
\* ------------------------------------------------------------------------

\* index of the first maximum of a 4-tuple (numpy argmax)
ArgMax4(d) ==
    CHOOSE i \in 1..4 : /\ \A j \in 1..4 : d[j] <= d[i]
                        /\ \A j \in 1..(i-1) : d[j] < d[i]

\* Rotation.from_matrix(rot).as_quat() for a rotation matrix given by rows,
\* in scipy's [x, y, z, w] order, before the division by the norm
FromMatrixAsQuat(m) ==
    LET trace    == m[1][1] + m[2][2] + m[3][3]
        decision == <<m[1][1], m[2][2], m[3][3], trace>>
        choice   == ArgMax4(decision)
    IN  IF choice # 4
        THEN LET i == choice
                 j == (i % 3) + 1
                 k == (j % 3) + 1
             IN  [n \in 1..4 |->
                    IF n = i THEN 1 - trace + 2 * m[i][i]
                    ELSE IF n = j THEN m[j][i] + m[i][j]
                    ELSE IF n = k THEN m[k][i] + m[i][k]
                    ELSE m[k][j] - m[j][k]]
        ELSE <<m[3][2] - m[2][3], m[1][3] - m[3][1], m[2][1] - m[1][2], 1 + trace>>

\* pos, quat = transform_to_pos_quat(t); t is 1-based here, 0-based in Python
transform_to_pos_quat(t) ==
    LET pos  == <<t[4], t[8], t[12]>>
        rot  == << <<t[1], t[5], t[9]>>,
                   <<t[2], t[6], t[10]>>,
                   <<t[3], t[7], t[11]>> >>
        quat == FromMatrixAsQuat(rot)
    IN  [pos |-> pos, quat |-> <<quat[4], quat[1], quat[2], quat[3]>>]

\* ------------------------------------------------------------------------
\* fmt_pos, fmt_quat: "%.6f"
\* ------------------------------------------------------------------------

\* a length in 1e-7 m rounded to micro-units, ties to even
RoundMicro(v) ==
    LET q == v \div 10
        r == v % 10
    IN  IF r < 5 THEN q
        ELSE IF r > 5 THEN q + 1
        ELSE IF q % 2 = 0 THEN q ELSE q + 1

\* f"{x:.6f}" of a length: the sign printed and the digits, in micro-units
Fmt6(v) ==
    LET r == RoundMicro(v)
    IN  <<IF v < 0 THEN "-" ELSE "", IF r < 0 THEN -r ELSE r>>

\* fmt_pos(p)
fmt_pos(p) == <<Fmt6(p[1]), Fmt6(p[2]), Fmt6(p[3])>>

\* Euclidean difference of two positions (numpy array subtraction)
VecSub(a, b) == <<a[1] - b[1], a[2] - b[2], a[3] - b[3]>>

\* f"{c/norm:.6f}" of one component c of a quaternion of squared norm n2
FmtUnit(c, n2) ==
    LET ratio4 == (4 * c * c) \div n2
        digits == CASE ratio4 = 0 -> 0
                    [] ratio4 = 1 -> 500000
                    [] ratio4 = 2 -> 707107
                    [] OTHER      -> 1000000
    IN  <<IF c < 0 THEN "-" ELSE "", digits>>

\* fmt_quat(q)
fmt_quat(q) ==
    LET n2 == q[1]*q[1] + q[2]*q[2] + q[3]*q[3] + q[4]*q[4]
    IN  <<FmtUnit(q[1], n2), FmtUnit(q[2], n2), FmtUnit(q[3], n2), FmtUnit(q[4], n2)>>

\* ------------------------------------------------------------------------
\* State
\* ------------------------------------------------------------------------

VARIABLES
    \* converter.main: the loaded documents
    instances,      \* root['instances']: sequence of [id, name]
    occurrences,    \* root['occurrences']: sequence of [path, transform, fixed]
    features,       \* root['features']: sequence of [mateType, matedEntities]
    meshes,         \* 08_exported_meshes.json: sequence of [instanceId, filename]
    \* converter.main: control state and locals
    pc,             \* the statement main is about to run
    err,            \* the exception that ended the run, or None
    fixed_id,
    base,           \* base_pos, base_quat
    horn_id, motor_id, joint1_id, joint2_id,
    axis, origin,
    poses,          \* motor/horn/j1/j2 pos and quat
    rels,           \* horn_rel, j2_rel, j1_rel
    mjcf,           \* the document text, as its sequence of elements
    log,            \* what main printed about the base and the mate
    file,           \* robot.xml
    \* analyze_for_mujoco
    feature_list,   \* features['features']
    a_pc,
    a_idx,          \* the feature the loop is at
    joints,         \* analysis['joints']
    potential_issues,
    summary,        \* analysis['summary'], its mate entries
    \* one call of transform_to_pos_quat
    t_pc,
    t_arg,          \* t, the 16 values
    t_ret,          \* the pair returned
    \* one call of OnshapeClient.get_binary
    c_pc,
    c_args,         \* path and query
    c_sent,         \* the requests handed to requests.get, in order
    c_received,     \* the responses requests.get returned, in order
    c_ret,          \* the bytes returned
    \* one call of explore_transforms
    x_pc,
    x_occurrences,  \* root['occurrences']: sequence of [path, transform, hidden]
    x_idx,          \* the occurrence the loop is at
    x_transforms,   \* transforms, as its <<path_str, entry>> insertions
    x_printed,      \* the lines printed for the top-level instances
    \* one call of export_meshes
    m_pc,
    m_instances,    \* root['instances']
    m_idx,          \* the instance the loop is at
    seen_parts,     \* the (documentId, elementId, partId) keys seen
    exported,       \* the manifest saved as 08_exported_meshes.json
    m_calls,        \* the calls of client.export_stl, with their outcome
    m_files,        \* the file names opened for writing under MESH_DIR
    \* the viewer's module globals and the requests it has handled
    model,          \* None or the loaded MjModel
    data,           \* None or the MjData of the model
    qpos,           \* data.qpos, by joint name, in 1e-6 rad
    renderer,       \* None or the Renderer
    cameras,        \* cameras: name -> [azimuth, elevation, distance, lookat]
    joint_controls, \* joint_controls: joint name -> value, in 1e-6 rad
    anim_time,      \* anim_time, in steps of 0.05
    v_loads,        \* how many times MjModel.from_xml_path has returned
    v_log           \* the requests handled, in order, with what each did

convVars == <<instances, occurrences, features, meshes, pc, err, fixed_id, base,
              horn_id, motor_id, joint1_id, joint2_id, axis, origin, poses, rels,
              mjcf, log, file>>

anVars == <<feature_list, a_pc, a_idx, joints, potential_issues, summary>>

tfVars == <<t_pc, t_arg, t_ret>>

cliVars == <<c_pc, c_args, c_sent, c_received, c_ret>>

exVars == <<x_pc, x_occurrences, x_idx, x_transforms, x_printed>>

meVars == <<m_pc, m_instances, m_idx, seen_parts, exported, m_calls, m_files>>

viVars == <<model, data, qpos, renderer, cameras, joint_controls, anim_time, v_loads, v_log>>

vars == <<convVars, anVars, tfVars, cliVars, exVars, meVars, viVars>>

\* what a step of one function leaves alone: the state of the others
outsideConverter == <<anVars, tfVars, cliVars, exVars, meVars, viVars>>
outsideAnalyzer  == <<convVars, tfVars, cliVars, exVars, meVars, viVars>>
outsideTransform == <<convVars, anVars, cliVars, exVars, meVars, viVars>>
outsideClient    == <<convVars, anVars, tfVars, exVars, meVars, viVars>>
outsideExplore == <<convVars, anVars, tfVars, cliVars, meVars, viVars>>
outsideExport == <<convVars, anVars, tfVars, cliVars, exVars, viVars>>
outsideViewer == <<convVars, anVars, tfVars, cliVars, exVars, meVars>>

\* robot.xml as it was before the run (absent, or left by an earlier run)
Untouched == [written |-> FALSE, text |-> <<>>]

\* mjcf before the f-string is evaluated
NoText == <<>>

\* ------------------------------------------------------------------------
\* converter.main: the three lookup tables
\* ------------------------------------------------------------------------

\* instances = {inst['id']: inst for inst in root['instances']}
InstancesD == [i \in 1..Len(instances) |-> <<instances[i].id, instances[i]>>]

\* occurrences = {occ['path'][0]: occ for occ in root['occurrences']}
OccurrencesD == [i \in 1..Len(occurrences) |-> <<occurrences[i].path[1], occurrences[i]>>]

\* mesh_map = {m['instanceId']: m['filename'] for m in meshes}
MeshMap == [i \in 1..Len(meshes) |-> <<meshes[i].instanceId, meshes[i].filename>>]

\* ------------------------------------------------------------------------
\* converter.main: the search for the base and the assignment by name
\* ------------------------------------------------------------------------

\* the loop over root['occurrences'] that stops at the first fixed one
FirstFixed ==
    IF \E i \in 1..Len(occurrences) : occurrences[i].fixed
    THEN LET f == CHOOSE i \in 1..Len(occurrences) :
                      /\ occurrences[i].fixed
                      /\ \A j \in 1..(i-1) : ~occurrences[j].fixed
         IN  occurrences[f].path[1]
    ELSE None

\* the loop over instances.items() that stops at the first name with 'motor'
FirstMotor ==
    LET keys == DictKeys(InstancesD)
        hit(i) == InLower("motor", DictGet(InstancesD, keys[i]).name)
    IN  IF \E i \in 1..Len(keys) : hit(i)
        THEN keys[CHOOSE i \in 1..Len(keys) : hit(i) /\ \A j \in 1..(i-1) : ~hit(j)]
        ELSE None

\* fixed_id after the two loops
FindFixedId == IF FirstFixed # None THEN FirstFixed ELSE FirstMotor

\* the branch of the if/elif chain a name takes
NameRole(name) ==
    IF InLower("motor", name) THEN "motor"
    ELSE IF InLower("horn", name) THEN "horn"
    ELSE IF InLower("joint #1", name) \/ InLower("joint_1", name) THEN "joint1"
    ELSE IF InLower("joint #2", name) \/ InLower("joint_2", name) THEN "joint2"
    ELSE "none"

\* the id a role variable holds after the loop: the last instance taking the branch
LastWithRole(role) ==
    LET keys == DictKeys(InstancesD)
        hit(i) == NameRole(DictGet(InstancesD, keys[i]).name) = role
    IN  IF \E i \in 1..Len(keys) : hit(i)
        THEN keys[CHOOSE i \in 1..Len(keys) :
                      hit(i) /\ \A j \in (i+1)..Len(keys) : ~hit(j)]
        ELSE None

\* ------------------------------------------------------------------------
\* converter.main: the document
\* ------------------------------------------------------------------------

\* an attribute the element does not carry
NoAttr == <<>>

El(el, name, pos, quat, ref, ax) ==
    [el |-> el, name |-> name, pos |-> pos, quat |-> quat, ref |-> ref, axis |-> ax]

MeshEl(name, filename) == El("mesh", name, NoAttr, NoAttr, filename, NoAttr)
BodyEl(name, pos, quat) == El("body", name, pos, quat, "", NoAttr)
EndBody                 == El("/body", "", NoAttr, NoAttr, "", NoAttr)
GeomEl(mesh, quat)      == El("geom", "", NoAttr, quat, mesh, NoAttr)
JointEl(name, type, ax) == El("joint", name, NoAttr, NoAttr, type, ax)
MotorEl(name, joint)    == El("motor", name, NoAttr, NoAttr, joint, NoAttr)

\* the axis attribute of the joint element, "0 -1 0"
JointAxisText == <<0, -1, 0>>

\* the type attribute of the joint element
JointTypeText == "hinge"

\* C9 mutant: the joint element placed in the body of joint #1
MjcfText_JointInChild(mm, p, r) ==
    << MeshEl("Motor", DictGet(mm, motor_id)),
       MeshEl("Horn", DictGet(mm, horn_id)),
       MeshEl("Joint_1", DictGet(mm, joint1_id)),
       MeshEl("Joint_2", DictGet(mm, joint2_id)),
       BodyEl("motor", fmt_pos(p.motor.pos), fmt_quat(p.motor.quat)),
         GeomEl("Motor", NoAttr),
         BodyEl("joint_2", fmt_pos(r.j2), NoAttr),
           GeomEl("Joint_2", fmt_quat(p.j2.quat)),
         EndBody,
         BodyEl("horn", fmt_pos(r.horn), NoAttr),
           GeomEl("Horn", fmt_quat(p.horn.quat)),
           BodyEl("joint_1", fmt_pos(r.j1), NoAttr),
             JointEl("servo_rotation", JointTypeText, JointAxisText),
             GeomEl("Joint_1", fmt_quat(p.j1.quat)),
           EndBody,
         EndBody,
       EndBody,
       MotorEl("servo", "servo_rotation") >>

\* C14 mutant: the geom of joint #1 oriented by the pose of the horn it hangs on
MjcfText_ParentQuat(mm, p, r) ==
    << MeshEl("Motor", DictGet(mm, motor_id)),
       MeshEl("Horn", DictGet(mm, horn_id)),
       MeshEl("Joint_1", DictGet(mm, joint1_id)),
       MeshEl("Joint_2", DictGet(mm, joint2_id)),
       BodyEl("motor", fmt_pos(p.motor.pos), fmt_quat(p.motor.quat)),
         GeomEl("Motor", NoAttr),
         BodyEl("joint_2", fmt_pos(r.j2), NoAttr),
           GeomEl("Joint_2", fmt_quat(p.j2.quat)),
         EndBody,
         BodyEl("horn", fmt_pos(r.horn), NoAttr),
           JointEl("servo_rotation", JointTypeText, JointAxisText),
           GeomEl("Horn", fmt_quat(p.horn.quat)),
           BodyEl("joint_1", fmt_pos(r.j1), NoAttr),
             GeomEl("Joint_1", fmt_quat(p.horn.quat)),
           EndBody,
         EndBody,
       EndBody,
       MotorEl("servo", "servo_rotation") >>

\* the f-string: asset meshes, the nested bodies, the actuator.  The compiler,
\* option, visual, texture, material, ground, light and inertial elements hold
\* no input value and are left out.
MjcfText(mm, p, r) ==
    << MeshEl("Motor", DictGet(mm, motor_id)),
       MeshEl("Horn", DictGet(mm, horn_id)),
       MeshEl("Joint_1", DictGet(mm, joint1_id)),
       MeshEl("Joint_2", DictGet(mm, joint2_id)),
       BodyEl("motor", fmt_pos(p.motor.pos), fmt_quat(p.motor.quat)),
         GeomEl("Motor", NoAttr),
         BodyEl("joint_2", fmt_pos(r.j2), NoAttr),
           GeomEl("Joint_2", fmt_quat(p.j2.quat)),
         EndBody,
         BodyEl("horn", fmt_pos(r.horn), NoAttr),
           JointEl("servo_rotation", JointTypeText, JointAxisText),
           GeomEl("Horn", fmt_quat(p.horn.quat)),
           BodyEl("joint_1", fmt_pos(r.j1), NoAttr),
             GeomEl("Joint_1", fmt_quat(p.j1.quat)),
           EndBody,
         EndBody,
       EndBody,
       MotorEl("servo", "servo_rotation") >>

\* ------------------------------------------------------------------------
\* converter.main: the loop over the mate features
\* ------------------------------------------------------------------------

RECURSIVE MateLoop(_, _)
\* the locals after the features from k on, starting from the locals st;
\* the loop ends early on a participant that instances does not hold
MateLoop(k, st) ==
    IF k > Len(features) \/ st.err # None THEN st
    ELSE LET fd   == features[k]
             ents == fd.matedEntities
             h    == ents[1].matedOccurrence[1]
             m    == ents[2].matedOccurrence[1]
         IN  IF fd.mateType # "CYLINDRICAL" THEN MateLoop(k + 1, st)
             ELSE IF ~HasKey(InstancesD, h) \/ ~HasKey(InstancesD, m)
             THEN [st EXCEPT !.err = "KeyError", !.horn_id = h, !.motor_id = m]
             ELSE MateLoop(k + 1,
                    [err      |-> None,
                     horn_id  |-> h,
                     motor_id |-> m,
                     axis     |-> ents[1].matedCS.zAxis,
                     origin   |-> ents[1].matedCS.origin,
                     log      |-> Append(st.log,
                                    <<"Cylindrical mate",
                                      DictGet(InstancesD, h).name,
                                      DictGet(InstancesD, m).name>>)])

\* ------------------------------------------------------------------------
\* converter.main, statement by statement
\* ------------------------------------------------------------------------

\* an uncaught exception ends the run
Raise(e) == pc' = "error" /\ err' = e

\* lines 52-66: find the fixed part, fall back to the motor, print its name
FindFixedPart ==
    /\ pc = "find_fixed"
    /\ fixed_id' = FindFixedId
    /\ IF HasKey(InstancesD, FindFixedId)
       THEN /\ log' = Append(log, <<"Base (fixed)", DictGet(InstancesD, FindFixedId).name>>)
            /\ pc' = "base_transform"
            /\ err' = err
       ELSE Raise("KeyError") /\ log' = log
    /\ UNCHANGED <<instances, occurrences, features, meshes, base, horn_id, motor_id,
                   joint1_id, joint2_id, axis, origin, poses, rels, mjcf, file>>
    /\ UNCHANGED outsideConverter

\* lines 68-70: the base transform
GetBaseTransform ==
    /\ pc = "base_transform"
    /\ IF HasKey(OccurrencesD, fixed_id)
       THEN /\ base' = transform_to_pos_quat(DictGet(OccurrencesD, fixed_id).transform)
            /\ pc' = "part_positions"
            /\ err' = err
       ELSE Raise("KeyError") /\ base' = base
    /\ UNCHANGED <<instances, occurrences, features, meshes, fixed_id, horn_id, motor_id,
                   joint1_id, joint2_id, axis, origin, poses, rels, mjcf, log, file>>
    /\ UNCHANGED outsideConverter

\* lines 72-76: print every occurrence's name and world position
PrintPartPositions ==
    /\ pc = "part_positions"
    /\ IF \A i \in 1..Len(OccurrencesD) : HasKey(InstancesD, OccurrencesD[i][1])
       THEN pc' = "find_mate" /\ err' = err
       ELSE Raise("KeyError")
    /\ UNCHANGED <<instances, occurrences, features, meshes, fixed_id, base, horn_id,
                   motor_id, joint1_id, joint2_id, axis, origin, poses, rels, mjcf, log,
                   file>>
    /\ UNCHANGED outsideConverter

\* lines 78-94: find the cylindrical mate
FindCylindricalMate ==
    /\ pc = "find_mate"
    /\ LET st == MateLoop(1, [err |-> None, horn_id |-> horn_id, motor_id |-> motor_id,
                              axis |-> axis, origin |-> origin, log |-> log])
       IN  /\ horn_id' = st.horn_id
           /\ motor_id' = st.motor_id
           /\ axis' = st.axis
           /\ origin' = st.origin
           /\ log' = st.log
           /\ IF st.err = None THEN pc' = "assign_by_name" /\ err' = err
              ELSE Raise(st.err)
    /\ UNCHANGED <<instances, occurrences, features, meshes, fixed_id, base, joint1_id,
                   joint2_id, poses, rels, mjcf, file>>
    /\ UNCHANGED outsideConverter

\* lines 98-112: reset the four ids and assign them by instance name
AssignByName ==
    /\ pc = "assign_by_name"
    /\ motor_id' = LastWithRole("motor")
    /\ horn_id' = LastWithRole("horn")
    /\ joint1_id' = LastWithRole("joint1")
    /\ joint2_id' = LastWithRole("joint2")
    /\ pc' = "get_transforms"
    /\ UNCHANGED <<instances, occurrences, features, meshes, err, fixed_id, base, axis,
                   origin, poses, rels, mjcf, log, file>>
    /\ UNCHANGED outsideConverter

\* the pose of the occurrence keyed id, the origin pose if there is none
PoseOrDefault(id) ==
    IF HasKey(OccurrencesD, id)
    THEN transform_to_pos_quat(DictGet(OccurrencesD, id).transform)
    ELSE [pos |-> <<0, 0, 0>>, quat |-> <<1, 0, 0, 0>>]

\* C7 mutant: a missing occurrence replaced by a default pose
GetTransforms_Default ==
    /\ pc = "get_transforms"
    /\ poses' = [motor |-> PoseOrDefault(motor_id),
                 horn  |-> PoseOrDefault(horn_id),
                 j1    |-> PoseOrDefault(joint1_id),
                 j2    |-> PoseOrDefault(joint2_id)]
    /\ pc' = "relative"
    /\ UNCHANGED <<instances, occurrences, features, meshes, err, fixed_id, base, horn_id,
                   motor_id, joint1_id, joint2_id, axis, origin, rels, mjcf, log, file>>
    /\ UNCHANGED outsideConverter

\* lines 114-118: the four world poses
GetTransforms ==
    /\ pc = "get_transforms"
    /\ IF \A id \in {motor_id, horn_id, joint1_id, joint2_id} : HasKey(OccurrencesD, id)
       THEN /\ poses' = [motor |-> transform_to_pos_quat(DictGet(OccurrencesD, motor_id).transform),
                         horn  |-> transform_to_pos_quat(DictGet(OccurrencesD, horn_id).transform),
                         j1    |-> transform_to_pos_quat(DictGet(OccurrencesD, joint1_id).transform),
                         j2    |-> transform_to_pos_quat(DictGet(OccurrencesD, joint2_id).transform)]
            /\ pc' = "relative"
            /\ err' = err
       ELSE Raise("KeyError") /\ poses' = poses
    /\ UNCHANGED <<instances, occurrences, features, meshes, fixed_id, base, horn_id,
                   motor_id, joint1_id, joint2_id, axis, origin, rels, mjcf, log, file>>
    /\ UNCHANGED outsideConverter

\* C2 mutant: joint #1 measured from the motor instead of from the horn
RelativePositions_J1FromMotor(p) ==
    [horn |-> VecSub(p.horn.pos, p.motor.pos),
     j2   |-> VecSub(p.j2.pos, p.motor.pos),
     j1   |-> VecSub(p.j1.pos, p.motor.pos)]

\* horn_rel, j2_rel, j1_rel of lines 128-130
RelativePositions(p) ==
    [horn |-> VecSub(p.horn.pos, p.motor.pos),
     j2   |-> VecSub(p.j2.pos, p.motor.pos),
     j1   |-> VecSub(p.j1.pos, p.horn.pos)]

\* lines 126-135: the relative positions
ComputeRelative ==
    /\ pc = "relative"
    /\ rels' = RelativePositions(poses)
    /\ pc' = "build"
    /\ UNCHANGED <<instances, occurrences, features, meshes, err, fixed_id, base, horn_id,
                   motor_id, joint1_id, joint2_id, axis, origin, poses, mjcf, log, file>>
    /\ UNCHANGED outsideConverter

\* C6 mutant: robot.xml opened for writing before the text is built
BuildMjcf_OpensFirst ==
    /\ pc = "build"
    /\ file' = [written |-> TRUE, text |-> <<>>]
    /\ IF \A id \in {motor_id, horn_id, joint1_id, joint2_id} : HasKey(MeshMap, id)
       THEN /\ mjcf' = MjcfText(MeshMap, poses, rels)
            /\ pc' = "write"
            /\ err' = err
       ELSE Raise("KeyError") /\ mjcf' = mjcf
    /\ UNCHANGED <<instances, occurrences, features, meshes, fixed_id, base, horn_id,
                   motor_id, joint1_id, joint2_id, axis, origin, poses, rels, log>>
    /\ UNCHANGED outsideConverter

\* lines 137-194: the document text
BuildMjcf ==
    /\ pc = "build"
    /\ IF \A id \in {motor_id, horn_id, joint1_id, joint2_id} : HasKey(MeshMap, id)
       THEN /\ mjcf' = MjcfText(MeshMap, poses, rels)
            /\ pc' = "write"
            /\ err' = err
       ELSE Raise("KeyError") /\ mjcf' = mjcf
    /\ UNCHANGED <<instances, occurrences, features, meshes, fixed_id, base, horn_id,
                   motor_id, joint1_id, joint2_id, axis, origin, poses, rels, log, file>>
    /\ UNCHANGED outsideConverter

\* lines 196-199: open robot.xml for writing and write the text
WriteFile ==
    /\ pc = "write"
    /\ file' = [written |-> TRUE, text |-> mjcf]
    /\ pc' = "done"
    /\ UNCHANGED <<instances, occurrences, features, meshes, err, fixed_id, base, horn_id,
                   motor_id, joint1_id, joint2_id, axis, origin, poses, rels, mjcf, log>>
    /\ UNCHANGED outsideConverter

ConverterNext ==
    \/ FindFixedPart
    \/ GetBaseTransform
    \/ PrintPartPositions
    \/ FindCylindricalMate
    \/ AssignByName
    \/ GetTransforms
    \/ ComputeRelative
    \/ BuildMjcf
    \/ WriteFile

\* ------------------------------------------------------------------------
\* converter.main: the input documents the model runs it on
\* ------------------------------------------------------------------------

\* instance ids, in the order of root['instances']
Ids == <<"a", "b", "c", "d", "e">>

\* exported mesh file of each instance
Files == <<"a.stl", "b.stl", "c.stl", "d.stl", "e.stl">>

\* lists of instance names: the reference assembly in two orders and spellings,
\* with a fifth part, with two names holding 'motor', and with a role missing
NameLists ==
    { <<"Motor", "Horn", "Joint #1", "Joint #2">>,
      <<"Horn", "joint_2", "Motor", "joint_1">>,
      <<"Base", "Motor", "Horn", "Joint #1", "Joint #2">>,
      <<"Motor", "Horn", "Joint #1", "Joint #2", "Motor horn">>,
      <<"Base", "Horn", "Joint #1", "Joint #2">>,
      <<"Motor", "Base", "Joint #1", "Joint #2">>,
      <<"Motor", "Horn", "Joint #1", "Base">> }

\* rotation blocks, by rows: identity, +90 and -90 degrees about z, 180 about x
RotI    == << <<1, 0, 0>>,  <<0, 1, 0>>,  <<0, 0, 1>> >>
RotZ90  == << <<0, -1, 0>>, <<1, 0, 0>>,  <<0, 0, 1>> >>
RotZm90 == << <<0, 1, 0>>,  <<-1, 0, 0>>, <<0, 0, 1>> >>
RotX180 == << <<1, 0, 0>>,  <<0, -1, 0>>, <<0, 0, -1>> >>

\* the 16 values in the layout of the docstring:
\* [r00, r10, r20, tx, r01, r11, r21, ty, r02, r12, r22, tz, 0, 0, 0, 1]
Transform(r, p) ==
    << r[1][1], r[2][1], r[3][1], p[1],
       r[1][2], r[2][2], r[3][2], p[2],
       r[1][3], r[2][3], r[3][3], p[3],
       0, 0, 0, 1 >>

\* world poses an occurrence may have (lengths in 1e-7 m)
TPool ==
    { Transform(RotI, <<0, 0, 0>>),
      Transform(RotZm90, <<0, 0, 0>>),
      Transform(RotZ90, <<1000000, 0, 0>>),
      Transform(RotX180, <<1000004, -16, 25>>) }

\* a placement of up to five parts
Layout ==
    << Transform(RotI, <<0, 0, 0>>),
       Transform(RotZ90, <<1000000, 0, 0>>),
       Transform(RotI, <<1000004, -16, 25>>),
       Transform(RotX180, <<0, 250000, 0>>),
       Transform(RotZm90, <<-4, 0, 350000>>) >>

\* a mate connector on instance i with principal axis ax
MatedEntity(i, ax) ==
    [matedOccurrence |-> <<Ids[i]>>, matedCS |-> [zAxis |-> ax, origin |-> <<0, 0, 0>>]]

\* featureData of a mate of the given type between instances i and j
Mate(type, i, j, ax) ==
    [mateType |-> type, matedEntities |-> <<MatedEntity(i, ax), MatedEntity(j, ax)>>]

\* the mates a feature list is drawn from; instance 5 is absent from the
\* four-part assemblies
MatePool ==
    { Mate("CYLINDRICAL", p[1], p[2], ax) :
        p \in {<<2, 1>>, <<2, 3>>, <<5, 1>>},
        ax \in {<<0, 1, 0>>, <<0, 0, 1>>} }
    \cup
    { Mate("SCREW", 2, 1, <<0, 0, 1>>), Mate("FASTENED", 1, 2, <<0, 0, 1>>) }

\* feature lists of at most MaxMates mates
FeatureLists == UNION { [1..n -> MatePool] : n \in 0..MaxMates }

\* root['occurrences'] for n instances: one top-level occurrence per instance
\* but `missing`, the one at `fixedIdx` marked fixed
OccurrenceList(n, xf, fixedIdx, missing) ==
    LET idx == IF missing \in 1..n
               THEN [i \in 1..(n-1) |-> IF i < missing THEN i ELSE i + 1]
               ELSE [i \in 1..n |-> i]
    IN  [k \in 1..Len(idx) |->
            [path |-> <<Ids[idx[k]]>>, transform |-> xf[idx[k]], fixed |-> idx[k] = fixedIdx]]

\* the mesh manifest for n instances: one entry per instance but `missing`
MeshList(n, missing) ==
    LET idx == IF missing \in 1..n
               THEN [i \in 1..(n-1) |-> IF i < missing THEN i ELSE i + 1]
               ELSE [i \in 1..n |-> i]
    IN  [k \in 1..Len(idx) |-> [instanceId |-> Ids[idx[k]], filename |-> Files[idx[k]]]]

\* the locals of main before its first statement
ConverterStart ==
    /\ pc = "find_fixed"
    /\ err = None
    /\ fixed_id = None
    /\ base = Unbound
    /\ horn_id = Unbound /\ motor_id = Unbound
    /\ joint1_id = Unbound /\ joint2_id = Unbound
    /\ axis = Unbound /\ origin = Unbound
    /\ poses = Unbound /\ rels = Unbound
    /\ mjcf = NoText
    /\ log = <<>>
    /\ file = Untouched

\* total_joints and the count of joints per mate type
MateSummary(js) ==
    [total_joints |-> Len(js),
     mate_types   |-> [t \in {js[j].onshape_type : j \in 1..Len(js)} |->
                         Cardinality({j \in 1..Len(js) : js[j].onshape_type = t})]]

\* analyze_for_mujoco is not running
AnalyzeIdle ==
    /\ feature_list = <<>>
    /\ a_pc = "idle"
    /\ a_idx = 0
    /\ joints = <<>>
    /\ potential_issues = <<>>
    /\ summary = MateSummary(<<>>)

\* no call of transform_to_pos_quat on its own is under way
TransformIdle ==
    /\ t_pc = "idle"
    /\ t_arg = <<>>
    /\ t_ret = Unbound

\* no call of get_binary is under way
ClientIdle ==
    /\ c_pc = "idle"
    /\ c_args = <<>>
    /\ c_sent = <<>>
    /\ c_received = <<>>
    /\ c_ret = Unbound

\* explore_transforms is not running
ExploreIdle ==
    /\ x_pc = "idle"
    /\ x_occurrences = <<>>
    /\ x_idx = 0
    /\ x_transforms = <<>>
    /\ x_printed = <<>>

\* export_meshes is not running
ExportIdle ==
    /\ m_pc = "idle"
    /\ m_instances = <<>>
    /\ m_idx = 0
    /\ seen_parts = {}
    /\ exported = <<>>
    /\ m_calls = <<>>
    /\ m_files = {}

\* the viewer has been imported and has handled no request
ViewerIdle ==
    /\ model = None
    /\ data = None
    /\ qpos = [j \in {} |-> 0]
    /\ renderer = None
    /\ cameras = [n \in {} |-> 0]
    /\ joint_controls = [j \in {} |-> 0]
    /\ anim_time = 0
    /\ v_loads = 0
    /\ v_log = <<>>

\* assemblies that vary in names, fixed flag, missing entries and mates
InitStructural ==
    \E names \in NameLists, feats \in FeatureLists :
    \E fixedIdx \in 0..Len(names), occMissing \in 0..Len(names), meshMissing \in 0..Len(names) :
        /\ occMissing = 0 \/ meshMissing = 0
        /\ instances = [i \in 1..Len(names) |-> [id |-> Ids[i], name |-> names[i]]]
        /\ occurrences = OccurrenceList(Len(names), Layout, fixedIdx, occMissing)
        /\ meshes = MeshList(Len(names), meshMissing)
        /\ features = feats

\* the reference assembly in every combination of world poses
InitPose ==
    \E xf \in [1..4 -> TPool] :
        /\ instances = [i \in 1..4 |->
                          [id |-> Ids[i], name |-> <<"Motor", "Horn", "Joint #1", "Joint #2">>[i]]]
        /\ occurrences = OccurrenceList(4, xf, 1, 0)
        /\ meshes = MeshList(4, 0)
        /\ features = <<Mate("CYLINDRICAL", 2, 1, <<0, 1, 0>>)>>

\* a block that is no rotation: the identity scaled by two, determinant 8.
\* from_matrix takes it without complaint and yields the identity rotation.
RotScaled == << <<2, 0, 0>>, <<0, 2, 0>>, <<0, 0, 2>> >>

\* the reference assembly with the rotation block of one occurrence scaled
InitInvalid ==
    \E bad \in 1..4 :
        /\ instances = [i \in 1..4 |->
                          [id |-> Ids[i], name |-> <<"Motor", "Horn", "Joint #1", "Joint #2">>[i]]]
        /\ occurrences =
             OccurrenceList(4,
                [k \in 1..4 |->
                    IF k = bad
                    THEN Transform(RotScaled, <<Layout[k][4], Layout[k][8], Layout[k][12]>>)
                    ELSE Layout[k]],
                1, 0)
        /\ meshes = MeshList(4, 0)
        /\ features = <<Mate("CYLINDRICAL", 2, 1, <<0, 1, 0>>)>>

\* the reference assembly next to a sub-assembly instance e: root['occurrences']
\* lists the parts inside it with the paths [e, f] and [e, g]
InitNested ==
    \E fixedIdx \in 0..1 :
        /\ instances = [i \in 1..5 |->
                          [id |-> Ids[i],
                           name |-> <<"Motor", "Horn", "Joint #1", "Joint #2", "Base">>[i]]]
        /\ occurrences =
             OccurrenceList(4, Layout, fixedIdx, 0)
               \o << [path |-> <<Ids[5], "f">>, transform |-> Layout[5], fixed |-> FALSE],
                     [path |-> <<Ids[5], "g">>, transform |-> Layout[4], fixed |-> FALSE] >>
        /\ meshes = MeshList(4, 0)
        /\ features = <<Mate("CYLINDRICAL", 2, 1, <<0, 1, 0>>)>>

Init ==
    /\ InitStructural \/ InitPose \/ InitInvalid \/ InitNested
    /\ ConverterStart
    /\ AnalyzeIdle
    /\ TransformIdle
    /\ ClientIdle
    /\ ExploreIdle
    /\ ExportIdle
    /\ ViewerIdle

Next == ConverterNext

Spec == Init /\ [][Next]_vars

\* ------------------------------------------------------------------------
\* explore_assembly.analyze_for_mujoco: mates -> joints
\* ------------------------------------------------------------------------

\* a key the dict does not hold (param.get('value', ...) falls back)
Absent == "absent"

\* C10 mutant: the SLIDER and REVOLUTE entries of the table swapped
mate_mapping_Swapped(mate_type) ==
    CASE mate_type = "FASTENED"    -> None
      [] mate_type = "REVOLUTE"    -> "slide"
      [] mate_type = "SLIDER"      -> "hinge"
      [] mate_type = "CYLINDRICAL" -> "hinge+slide"
      [] mate_type = "BALL"        -> "ball"
      [] mate_type = "PLANAR"      -> "free (constrained)"
      [] mate_type = "PARALLEL"    -> None
      [] OTHER                     -> "unknown"

\* C13 mutant: a type outside the table mapped to no joint, like FASTENED
mate_mapping_UnknownIsNone(mate_type) ==
    CASE mate_type = "FASTENED"    -> None
      [] mate_type = "REVOLUTE"    -> "hinge"
      [] mate_type = "SLIDER"      -> "slide"
      [] mate_type = "CYLINDRICAL" -> "hinge+slide"
      [] mate_type = "BALL"        -> "ball"
      [] mate_type = "PLANAR"      -> "free (constrained)"
      [] mate_type = "PARALLEL"    -> None
      [] OTHER                     -> None

\* mate_mapping.get(mate_type, {'mujoco': 'unknown', ...})['mujoco']
mate_mapping(mate_type) ==
    CASE mate_type = "FASTENED"    -> None
      [] mate_type = "REVOLUTE"    -> "hinge"
      [] mate_type = "SLIDER"      -> "slide"
      [] mate_type = "CYLINDRICAL" -> "hinge+slide"
      [] mate_type = "BALL"        -> "ball"
      [] mate_type = "PLANAR"      -> "free (constrained)"
      [] mate_type = "PARALLEL"    -> None
      [] OTHER                     -> "unknown"

RECURSIVE ParamLoop(_, _, _)
\* mate_type and limits after the parameters from k on
ParamLoop(params, k, st) ==
    IF k > Len(params) THEN st
    ELSE LET pid == params[k].parameterId
             val == params[k].value
         IN  IF pid = "mateType"
             THEN ParamLoop(params, k + 1,
                    [st EXCEPT !.mate_type = IF val = Absent THEN "UNKNOWN" ELSE val])
             ELSE IF InLower("limit", pid)
             THEN ParamLoop(params, k + 1,
                    [st EXCEPT !.limits = Append(st.limits, <<pid, val>>)])
             ELSE ParamLoop(params, k + 1, st)

\* mate_type, limits = the result of the loop over feat['parameters']
MateTypeAndLimits(feat) ==
    ParamLoop(feat.parameters, 1, [mate_type |-> "UNKNOWN", limits |-> <<>>])

\* whether the loop body goes past its two `continue` statements
IsAnalyzed(feat) == feat.featureType = "mate" /\ ~feat.suppressed

\* joint_info of one feature
JointInfo(feat) ==
    LET tl == MateTypeAndLimits(feat)
    IN  [name         |-> feat.name,
         onshape_type |-> tl.mate_type,
         mujoco_type  |-> mate_mapping(tl.mate_type),
         limits       |-> tl.limits,
         has_limits   |-> tl.limits # <<>>]

\* the f-string appended to potential_issues
IssueText(info) == <<"Unknown mate type", info.onshape_type, info.name>>

\* lines 383-416: one pass of the loop over feature_list
AnalyzeFeature ==
    /\ a_pc = "loop"
    /\ a_idx <= Len(feature_list)
    /\ LET feat == feature_list[a_idx]
           info == JointInfo(feat)
       IN  IF IsAnalyzed(feat)
           THEN /\ joints' = Append(joints, info)
                /\ potential_issues' =
                     IF info.mujoco_type = "unknown"
                     THEN Append(potential_issues, IssueText(info))
                     ELSE potential_issues
           ELSE UNCHANGED <<joints, potential_issues>>
    /\ a_idx' = a_idx + 1
    /\ UNCHANGED <<feature_list, a_pc, summary>>
    /\ UNCHANGED outsideAnalyzer

\* lines 418-442: the summary, the saved file and the returned analysis
FinishAnalysis ==
    /\ a_pc = "loop"
    /\ a_idx > Len(feature_list)
    /\ summary' = MateSummary(joints)
    /\ a_pc' = "done"
    /\ UNCHANGED <<feature_list, a_idx, joints, potential_issues>>
    /\ UNCHANGED outsideAnalyzer

AnalyzeNext == AnalyzeFeature \/ FinishAnalysis

\* a feature of features['features']
Feature(ftype, suppressed, params) ==
    [featureType |-> ftype, suppressed |-> suppressed, parameters |-> params]

Param(pid, val) == [parameterId |-> pid, value |-> val]

\* the mate types the analyzer is run on: the seven of the mapping and one outside
MateTypes ==
    {"FASTENED", "REVOLUTE", "SLIDER", "CYLINDRICAL", "BALL", "PLANAR", "PARALLEL", "SCREW"}

\* the features a list is drawn from
FeaturePool ==
    { Feature("mate", FALSE, <<Param("mateType", t)>>) : t \in MateTypes }
    \cup
    { Feature("mate", TRUE, <<Param("mateType", t)>>) : t \in {"REVOLUTE", "SCREW"} }
    \cup
    { Feature("mate", FALSE,
              <<Param("mateType", "REVOLUTE"), Param("limitAxialZMin", "-1.57")>>),
      Feature("mate", FALSE, <<Param("LimitsEnabled", "true"), Param("mateType", "SLIDER")>>),
      Feature("mate", FALSE, <<Param("mateType", Absent)>>),
      Feature("mate", FALSE, <<>>),
      Feature("mateConnector", FALSE, <<>>) }

\* the feature at place k of the list, named by its place
Named(f, k) ==
    [featureType |-> f.featureType, name |-> <<"Mate", k>>, suppressed |-> f.suppressed,
     parameters |-> f.parameters]

\* the locals of analyze_for_mujoco before the loop over the features
AnalyzeStart ==
    /\ a_pc = "loop"
    /\ a_idx = 1
    /\ joints = <<>>
    /\ potential_issues = <<>>
    /\ summary = MateSummary(<<>>)

\* converter.main is not running
ConverterIdle ==
    /\ instances = <<>> /\ occurrences = <<>> /\ features = <<>> /\ meshes = <<>>
    /\ pc = "idle"
    /\ err = None
    /\ fixed_id = None
    /\ base = Unbound
    /\ horn_id = Unbound /\ motor_id = Unbound
    /\ joint1_id = Unbound /\ joint2_id = Unbound
    /\ axis = Unbound /\ origin = Unbound
    /\ poses = Unbound /\ rels = Unbound
    /\ mjcf = NoText
    /\ log = <<>>
    /\ file = Untouched

InitAnalyze ==
    /\ \E n \in 0..MaxFeatures : \E fl \in [1..n -> FeaturePool] :
         feature_list = [k \in 1..n |-> Named(fl[k], k)]
    /\ AnalyzeStart
    /\ ConverterIdle
    /\ TransformIdle
    /\ ClientIdle
    /\ ExploreIdle
    /\ ExportIdle
    /\ ViewerIdle

SpecAnalyze == InitAnalyze /\ [][AnalyzeNext]_vars

\* ------------------------------------------------------------------------
\* transform_to_pos_quat called on its own
\* ------------------------------------------------------------------------

\* lines 20-40: the call and its return
CallTransform ==
    /\ t_pc = "call"
    /\ t_ret' = transform_to_pos_quat(t_arg)
    /\ t_pc' = "return"
    /\ UNCHANGED t_arg
    /\ UNCHANGED outsideTransform

TransformNext == CallTransform

\* the 3x3 matrices of entries -1, 0, 1 that are rotations: orthonormal rows
\* and determinant 1 (the 24 rotations of the cube)
RotationBlocks ==
    LET Dot(u, v) == u[1]*v[1] + u[2]*v[2] + u[3]*v[3]
        Det(m)    == m[1][1] * (m[2][2]*m[3][3] - m[2][3]*m[3][2])
                   - m[1][2] * (m[2][1]*m[3][3] - m[2][3]*m[3][1])
                   + m[1][3] * (m[2][1]*m[3][2] - m[2][2]*m[3][1])
        Rows      == {v \in [1..3 -> {-1, 0, 1}] : Dot(v, v) = 1}
    IN  {m \in [1..3 -> Rows] :
            /\ Dot(m[1], m[2]) = 0 /\ Dot(m[1], m[3]) = 0 /\ Dot(m[2], m[3]) = 0
            /\ Det(m) = 1}

\* values found at flat offsets 12 to 15
Tails == { <<0, 0, 0, 1>>, <<250000, -16, 1000004, 1>> }

\* the 16 values of Transform(r, p) with the given last four
TransformWithTail(r, p, tail) ==
    [i \in 1..16 |-> IF i <= 12 THEN Transform(r, p)[i] ELSE tail[i - 12]]

\* the transforms the function is called on
TransformArgs ==
    { TransformWithTail(r, p, tail) :
        r \in RotationBlocks, p \in {<<0, 0, 0>>, <<1000004, -16, 25>>}, tail \in Tails }

InitTransform ==
    /\ t_arg \in TransformArgs
    /\ t_pc = "call"
    /\ t_ret = Unbound
    /\ ConverterIdle
    /\ AnalyzeIdle
    /\ ClientIdle
    /\ ExploreIdle
    /\ ExportIdle
    /\ ViewerIdle

SpecTransform == InitTransform /\ [][TransformNext]_vars

\* ------------------------------------------------------------------------
\* onshape_client.OnshapeClient: get_binary and _make_auth_headers
\*
\* A string is its sequence of characters; a URL is the token scheme://host
\* followed by the characters of its path and query.
\* ------------------------------------------------------------------------

\* self.base_url
BaseUrl == "https://cad.onshape.com"

\* s.find(c) + 1: the place of the first c in cs, 0 if there is none
IndexOf(cs, c) ==
    IF \E i \in 1..Len(cs) : cs[i] = c
    THEN CHOOSE i \in 1..Len(cs) : cs[i] = c /\ \A j \in 1..(i-1) : cs[j] # c
    ELSE 0

RECURSIVE Split(_, _)
\* cs.split(sep)
Split(cs, sep) ==
    LET i == IndexOf(cs, sep)
    IN  IF i = 0 THEN <<cs>>
        ELSE <<SubSeq(cs, 1, i - 1)>> \o Split(SubSeq(cs, i + 1, Len(cs)), sep)

RECURSIVE Join(_, _)
\* sep.join(parts)
Join(parts, sep) ==
    IF parts = <<>> THEN <<>>
    ELSE IF Len(parts) = 1 THEN parts[1]
    ELSE parts[1] \o <<sep>> \o Join(Tail(parts), sep)

\* urllib.parse.quote_plus on one character: letters, digits and _ . - ~ are
\* kept, a space becomes +, anything else its %XX escape
QuoteChar(c) ==
    CASE c = "%" -> <<"%", "2", "5">>
      [] c = "=" -> <<"%", "3", "D">>
      [] c = "&" -> <<"%", "2", "6">>
      [] c = "/" -> <<"%", "2", "F">>
      [] c = "+" -> <<"%", "2", "B">>
      [] c = "?" -> <<"%", "3", "F">>
      [] c = " " -> <<"+">>
      [] OTHER   -> <<c>>

RECURSIVE Concat(_)
\* ''.join(parts)
Concat(parts) == IF parts = <<>> THEN <<>> ELSE parts[1] \o Concat(Tail(parts))

\* urllib.parse.quote_plus
quote_plus(cs) == Concat([i \in 1..Len(cs) |-> QuoteChar(cs[i])])

\* urllib.parse.urlencode of a dict of strings
urlencode(d) ==
    LET keys == DictKeys(d)
    IN  Join([i \in 1..Len(keys) |->
                 quote_plus(keys[i]) \o <<"=">> \o quote_plus(DictGet(d, keys[i]))], "&")

\* urlparse(url): the path and the query of a URL
urlparse(url) ==
    LET q == IndexOf(url, "?")
    IN  [path  |-> SubSeq(url, 2, IF q = 0 THEN Len(url) ELSE q - 1),
         query |-> IF q = 0 THEN <<>> ELSE SubSeq(url, q + 1, Len(url))]

\* '=' in pair
HasEquals(pair) == IndexOf(pair, "=") # 0

\* lines 113-118: redirect_query, the dict built from the pairs of parsed.query
RedirectQuery(query) ==
    IF query = <<>> THEN <<>>
    ELSE LET pairs == SelectSeq(Split(query, "&"), HasEquals)
         IN  [i \in 1..Len(pairs) |->
                <<SubSeq(pairs[i], 1, IndexOf(pairs[i], "=") - 1),
                  SubSeq(pairs[i], IndexOf(pairs[i], "=") + 1, Len(pairs[i]))>>]

\* datetime.utcnow() formatted, at both calls of one run
UtcNow == <<"S", "u", "n", ",", " ", "0", "1", " ", "N", "o", "v">>

\* the values _make_nonce may return
Nonces == {<<"n", "1">>, <<"n", "2">>}

\* lines 34-79: the headers for a request.  The HMAC-SHA256 signature is kept
\* as the key and the string signed, field by field.
make_auth_headers(method, path, query, nonce) ==
    LET content_type   == <<"application/json">>
        query_string   == IF query # <<>> THEN urlencode(query) ELSE <<>>
        string_to_sign == [method       |-> Lower(method),
                           nonce        |-> Lower(nonce),
                           date         |-> Lower(UtcNow),
                           content_type |-> Lower(content_type),
                           path         |-> Lower(path),
                           query        |-> Lower(query_string)]
        signature      == [key |-> "secret_key", msg |-> string_to_sign]
    IN  [Authorization |-> [access_key |-> "access_key", signature |-> signature],
         Date          |-> UtcNow,
         OnNonce       |-> nonce,
         ContentType   |-> content_type,
         Accept        |-> "application/json"]

\* requests.get(url, headers=..., allow_redirects=...)
Request(url, headers, allow_redirects) ==
    [url |-> url, headers |-> headers, allow_redirects |-> allow_redirects]

\* lines 97-104: sign the request, build the URL, send it without following
\* redirects
GetBinarySend ==
    /\ c_pc = "send"
    /\ \E nonce \in Nonces :
         LET headers == [make_auth_headers(<<"G", "E", "T">>, c_args.path, c_args.query, nonce)
                            EXCEPT !.Accept = "application/octet-stream"]
             url     == <<BaseUrl>> \o c_args.path
                          \o (IF c_args.query # <<>>
                              THEN <<"?">> \o urlencode(c_args.query) ELSE <<>>)
         IN  c_sent' = Append(c_sent, Request(url, headers, FALSE))
    /\ c_pc' = "first_response"
    /\ UNCHANGED <<c_args, c_received, c_ret>>
    /\ UNCHANGED outsideClient

\* response.status_code == 307 and a non-empty Location header
IsRedirect(resp) == resp.status = 307 /\ resp.has_location /\ resp.location # <<>>

\* lines 104-124: the first response; on a 307 with a Location, parse the
\* redirect URL, sign anew for its path and query, and send the second request
GetBinaryFirstResponse(resp) ==
    /\ c_pc = "first_response"
    /\ c_received' = Append(c_received, resp)
    /\ IF IsRedirect(resp)
       THEN \E nonce \in Nonces :
              LET redirect_url     == resp.location
                  parsed           == urlparse(redirect_url)
                  redirect_query   == RedirectQuery(parsed.query)
                  redirect_headers ==
                      [make_auth_headers(<<"G", "E", "T">>, parsed.path, redirect_query, nonce)
                          EXCEPT !.Accept = "application/octet-stream"]
              IN  /\ c_sent' = Append(c_sent, Request(redirect_url, redirect_headers, TRUE))
                  /\ c_pc' = "second_response"
       ELSE /\ c_sent' = c_sent
            /\ c_pc' = "check"
    /\ UNCHANGED <<c_args, c_ret>>
    /\ UNCHANGED outsideClient

\* line 124: the response to the second request
GetBinarySecondResponse(resp) ==
    /\ c_pc = "second_response"
    /\ c_received' = Append(c_received, resp)
    /\ c_pc' = "check"
    /\ UNCHANGED <<c_args, c_sent, c_ret>>
    /\ UNCHANGED outsideClient

\* lines 126-127: raise_for_status() on the last response, then its content
GetBinaryReturn ==
    /\ c_pc = "check"
    /\ LET response == c_received[Len(c_received)]
       IN  IF response.status >= 400
           THEN c_pc' = "HTTPError" /\ c_ret' = c_ret
           ELSE c_pc' = "done" /\ c_ret' = response.content
    /\ UNCHANGED <<c_args, c_sent, c_received>>
    /\ UNCHANGED outsideClient

\* a URL on a regional server, from its path and query
RegionalUrl(path, query) ==
    <<"https://cad-usw2.onshape.com">> \o path
       \o (IF query = <<>> THEN <<>> ELSE <<"?">> \o query)

\* the Location values a 307 may carry: no query; a plain pair; a pair with a
\* percent-escape; a pair next to a flag without '='; a path in upper case
Locations ==
    { RegionalUrl(<<"/", "s", "t", "l">>, <<>>),
      RegionalUrl(<<"/", "s", "t", "l">>, <<"k", "=", "a">>),
      RegionalUrl(<<"/", "s", "t", "l">>, <<"k", "=", "a", "%", "2", "F", "b">>),
      RegionalUrl(<<"/", "s", "t", "l">>, <<"k", "=", "a", "&", "r", "a", "w">>),
      RegionalUrl(<<"/", "S", "T", "L">>, <<"k", "=", "a", "&", "m", "=", "b">>) }

\* an HTTP response
Response(status, has_location, location, content) ==
    [status |-> status, has_location |-> has_location, location |-> location,
     content |-> content]

\* the responses the server may give to the first request
FirstResponses ==
    { Response(200, FALSE, <<>>, "stl bytes"),
      Response(404, FALSE, <<>>, "not found"),
      Response(307, FALSE, <<>>, ""),
      Response(307, TRUE, <<>>, "") }
    \cup { Response(307, TRUE, loc, "") : loc \in Locations }
    \cup { Response(200, TRUE, loc, "stl bytes") : loc \in Locations }

\* the responses to the second request, further redirects followed by requests
SecondResponses ==
    { Response(200, FALSE, <<>>, "regional stl bytes"),
      Response(403, FALSE, <<>>, "forbidden"),
      Response(307, FALSE, <<>>, "") }

\* path and query of the call, as export_stl makes it and without a query
ClientArgs ==
    { [path |-> <<"/", "s", "t", "l">>, query |-> <<>>],
      [path |-> <<"/", "s", "t", "l">>,
       query |-> << <<(<<"u", "n", "i", "t", "s">>), (<<"m", "e", "t", "e", "r">>)>>,
                    <<(<<"m", "o", "d", "e">>), (<<"b", "i", "n", "a", "r", "y">>)>> >>] }

ClientNext ==
    \/ GetBinarySend
    \/ \E resp \in FirstResponses : GetBinaryFirstResponse(resp)
    \/ \E resp \in SecondResponses : GetBinarySecondResponse(resp)
    \/ GetBinaryReturn

InitClient ==
    /\ c_args \in ClientArgs
    /\ c_pc = "send"
    /\ c_sent = <<>>
    /\ c_received = <<>>
    /\ c_ret = Unbound
    /\ ConverterIdle
    /\ AnalyzeIdle
    /\ TransformIdle
    /\ ExploreIdle
    /\ ExportIdle
    /\ ViewerIdle

SpecClient == InitClient /\ [][ClientNext]_vars

\* ------------------------------------------------------------------------
\* explore_assembly.explore_transforms
\* ------------------------------------------------------------------------

\* longest occurrence list handed to explore_transforms
MaxOccurrences == 2

\* f"{x:.4f}" of a length in 1e-7 m: the sign printed and the digits, in
\* units of 1e-4 m, ties to even
Fmt4(v) ==
    LET q == v \div 1000
        r == v % 1000
        n == IF r < 500 THEN q
             ELSE IF r > 500 THEN q + 1
             ELSE IF q % 2 = 0 THEN q ELSE q + 1
    IN  <<IF v < 0 THEN "-" ELSE "", IF n < 0 THEN -n ELSE n>>

\* lines 257-263: what is printed for a top-level occurrence
PrintedLine(occ) ==
    [instance |-> occ.path[1],
     hidden   |-> occ.hidden,
     position |-> IF occ.transform # <<>>
                  THEN <<Fmt4(occ.transform[13]), Fmt4(occ.transform[14]),
                         Fmt4(occ.transform[15])>>
                  ELSE NoAttr]

\* lines 243-263: one pass of the loop over the occurrences
ExploreOccurrence ==
    /\ x_pc = "loop"
    /\ x_idx <= Len(x_occurrences)
    /\ LET occ      == x_occurrences[x_idx]
           path_str == Join([i \in 1..Len(occ.path) |-> <<occ.path[i]>>], "/")
       IN  /\ x_transforms' = Append(x_transforms, <<path_str, occ>>)
           /\ x_printed' = IF Len(occ.path) = 1
                           THEN Append(x_printed, PrintedLine(occ))
                           ELSE x_printed
    /\ x_idx' = x_idx + 1
    /\ UNCHANGED <<x_pc, x_occurrences>>
    /\ UNCHANGED outsideExplore

\* lines 265-266: save 07_transforms.json and return
FinishExplore ==
    /\ x_pc = "loop"
    /\ x_idx > Len(x_occurrences)
    /\ x_pc' = "done"
    /\ UNCHANGED <<x_occurrences, x_idx, x_transforms, x_printed>>
    /\ UNCHANGED outsideExplore

ExploreNext == ExploreOccurrence \/ FinishExplore

\* an occurrence of root['occurrences']
Occurrence(path, transform, hidden) ==
    [path |-> path, transform |-> transform, hidden |-> hidden]

\* the occurrences a list is drawn from: translations at offsets 3, 7, 11 with
\* the last four values 0 0 0 1; one at the origin; one whose offsets 12 to 14
\* repeat the translation; one hidden; one without transform; one nested
ExploreOccurrencePool ==
    { Occurrence(<<"a">>, Transform(RotI, <<1000004, -16, 25>>), FALSE),
      Occurrence(<<"a">>, Transform(RotI, <<0, 0, 0>>), FALSE),
      Occurrence(<<"b">>, TransformWithTail(RotZ90, <<250000, -16, 1000004>>,
                                            <<250000, -16, 1000004, 1>>), FALSE),
      Occurrence(<<"b">>, Transform(RotZ90, <<0, 250000, 0>>), TRUE),
      Occurrence(<<"c">>, <<>>, FALSE),
      Occurrence(<<"e", "f">>, Transform(RotX180, <<0, 0, 350000>>), FALSE) }

InitExplore ==
    /\ x_occurrences \in UNION { [1..n -> ExploreOccurrencePool] : n \in 0..MaxOccurrences }
    /\ x_pc = "loop"
    /\ x_idx = 1
    /\ x_transforms = <<>>
    /\ x_printed = <<>>
    /\ ConverterIdle
    /\ AnalyzeIdle
    /\ TransformIdle
    /\ ClientIdle
    /\ ExportIdle
    /\ ViewerIdle

SpecExplore == InitExplore /\ [][ExploreNext]_vars

\* ------------------------------------------------------------------------
\* explore_assembly.export_meshes
\* ------------------------------------------------------------------------

\* longest instance list handed to export_meshes
MaxInstances == 4

\* the characters str.isalnum accepts, among those the names are written in
Alnum ==
    {"a","b","c","d","e","f","g","h","i","j","k","l","m","n","o","p","q","r",
     "s","t","u","v","w","x","y","z","A","B","C","D","E","F","G","H","I","J",
     "K","L","M","N","O","P","Q","R","S","T","U","V","W","X","Y","Z",
     "0","1","2","3","4","5","6","7","8","9"}

\* line 305: "".join(c if c.isalnum() or c in '-_' else '_' for c in part_name)
SafeName(cs) ==
    [i \in 1..Len(cs) |-> IF cs[i] \in Alnum \cup {"-", "_"} THEN cs[i] ELSE "_"]

\* line 306: f"{safe_name}_{part_id}.stl", as its pieces
Filename(part_name, part_id) == <<SafeName(part_name), "_", part_id, ".stl">>

\* bool(v) of an id that is a string or None
Truthy(v) == v # None /\ v # ""

\* line 296: the key of an instance
PartKey(inst) == <<inst.documentId, inst.elementId, inst.partId>>

\* lines 322-328: the manifest entry of an exported instance
ManifestEntry(inst) ==
    [partId     |-> inst.partId,
     name       |-> inst.name,
     filename   |-> Filename(inst.name, inst.partId),
     instanceId |-> inst.id]

\* what one export can do: export_stl and the write succeed, export_stl
\* raises, or the write raises after the file was opened
ExportOutcomes == {"ok", "export_raises", "write_raises"}

\* the loop pass with the key recorded only once the export has succeeded
ExportInstance_SeenOnSuccess ==
    /\ m_pc = "loop"
    /\ m_idx <= Len(m_instances)
    /\ LET inst == m_instances[m_idx]
           key  == PartKey(inst)
       IN  IF inst.type # "Part" \/ key \in seen_parts
              \/ ~(Truthy(inst.partId) /\ Truthy(inst.documentId) /\ Truthy(inst.elementId))
           THEN UNCHANGED <<seen_parts, exported, m_calls, m_files>>
           ELSE \E outcome \in ExportOutcomes :
                  /\ seen_parts' = IF outcome = "ok" THEN seen_parts \cup {key}
                                   ELSE seen_parts
                  /\ m_calls' = Append(m_calls, [key |-> key, at |-> m_idx,
                                                 outcome |-> outcome])
                  /\ m_files' = IF outcome = "export_raises" THEN m_files
                                ELSE m_files \cup {Filename(inst.name, inst.partId)}
                  /\ exported' = IF outcome = "ok"
                                 THEN Append(exported, ManifestEntry(inst))
                                 ELSE exported
    /\ m_idx' = m_idx + 1
    /\ UNCHANGED <<m_pc, m_instances>>
    /\ UNCHANGED outsideExport

\* lines 286-326: one pass of the loop over the instances
ExportInstance ==
    /\ m_pc = "loop"
    /\ m_idx <= Len(m_instances)
    /\ LET inst == m_instances[m_idx]
           key  == PartKey(inst)
       IN  IF inst.type # "Part" \/ key \in seen_parts
           THEN UNCHANGED <<seen_parts, exported, m_calls, m_files>>
           ELSE /\ seen_parts' = seen_parts \cup {key}
                /\ IF ~(Truthy(inst.partId) /\ Truthy(inst.documentId)
                        /\ Truthy(inst.elementId))
                   THEN UNCHANGED <<exported, m_calls, m_files>>
                   ELSE \E outcome \in ExportOutcomes :
                          /\ m_calls' = Append(m_calls, [key |-> key, at |-> m_idx,
                                                         outcome |-> outcome])
                          /\ m_files' = IF outcome = "export_raises" THEN m_files
                                        ELSE m_files \cup {Filename(inst.name, inst.partId)}
                          /\ exported' = IF outcome = "ok"
                                         THEN Append(exported, ManifestEntry(inst))
                                         ELSE exported
    /\ m_idx' = m_idx + 1
    /\ UNCHANGED <<m_pc, m_instances>>
    /\ UNCHANGED outsideExport

\* lines 328-329: save the manifest and return
FinishExport ==
    /\ m_pc = "loop"
    /\ m_idx > Len(m_instances)
    /\ m_pc' = "done"
    /\ UNCHANGED <<m_instances, m_idx, seen_parts, exported, m_calls, m_files>>
    /\ UNCHANGED outsideExport

ExportNext == ExportInstance \/ FinishExport

\* the instances a list is drawn from, before their ids: two instances of one
\* part under different names, another part of the same element, a part
\* without document id, a part with an empty part id, and a sub-assembly
InstanceKinds ==
    { [type |-> "Part", name |-> <<"J","o","i","n","t"," ","#","1">>,
       documentId |-> "d1", elementId |-> "e1", partId |-> "JHD"],
      [type |-> "Part", name |-> <<"J","o","i","n","t"," ","<","2",">">>,
       documentId |-> "d1", elementId |-> "e1", partId |-> "JHD"],
      [type |-> "Part", name |-> <<"H","o","r","n">>,
       documentId |-> "d1", elementId |-> "e1", partId |-> "JFD"],
      [type |-> "Part", name |-> <<"M","-","1">>,
       documentId |-> None, elementId |-> "e1", partId |-> "JHD"],
      [type |-> "Part", name |-> <<"M","-","1">>,
       documentId |-> "d1", elementId |-> "e1", partId |-> ""],
      [type |-> "Assembly", name |-> <<"A","r","m">>,
       documentId |-> "d1", elementId |-> "e2", partId |-> None] }

\* the ids of the instances of an assembly, one per position
InstanceIds == <<"i1", "i2", "i3", "i4", "i5">>

\* the instance at position i of a list of kinds
InstanceAt(kinds, i) ==
    [type |-> kinds[i].type, id |-> InstanceIds[i], name |-> kinds[i].name,
     documentId |-> kinds[i].documentId, elementId |-> kinds[i].elementId,
     partId |-> kinds[i].partId]

InitExport ==
    /\ \E n \in 0..MaxInstances : \E kinds \in [1..n -> InstanceKinds] :
          m_instances = [i \in 1..n |-> InstanceAt(kinds, i)]
    /\ m_pc = "loop"
    /\ m_idx = 1
    /\ seen_parts = {}
    /\ exported = <<>>
    /\ m_calls = <<>>
    /\ m_files = {}
    /\ ConverterIdle
    /\ AnalyzeIdle
    /\ TransformIdle
    /\ ClientIdle
    /\ ExploreIdle
    /\ ViewerIdle

SpecExport == InitExport /\ [][ExportNext]_vars

\* ------------------------------------------------------------------------
\* viewer: the Flask handlers, served one request at a time
\* ------------------------------------------------------------------------

\* most requests the server is followed through
MaxRequests == 3

\* line 40
auto_animate == TRUE

\* the named joints of robot.xml, as the converter writes it
ModelJoints == {"servo_rotation"}

\* lines 57-66: model_extent of that model, in mm (the least it can be)
ModelExtent == 100

\* line 69: the cameras set up, with azimuth and elevation
CameraSetup == <<<<"main", 135, -25>>, <<"front", 180, 0>>, <<"top", 0, -90>>>>

\* lines 70-74: a camera; distance in mm
Camera(az, el) ==
    [azimuth |-> az, elevation |-> el, distance |-> (ModelExtent * 8) \div 10,
     lookat |-> "model_center"]

\* math.sin(anim_time) * 1.2 after k steps of 0.05, in 1e-6 rad
SinTable ==
    <<59975, 119800, 179326, 238403, 296885, 354624,
      411477, 467302, 521959, 575311, 627225, 677571>>

\* line 96
AnimValue(k) == SinTable[k]

\* d.get(k, default) of a JSON body
Get(d, k, default) == IF k \in DOMAIN d THEN d[k] ELSE default

\* how a first ensure_initialized can go: it completes, from_xml_path raises
\* (line 51), or Renderer raises (line 55)
InitOutcomes == {"ok", "load_raises", "renderer_raises"}

\* lines 44-83: the globals after ensure_initialized, and how it went
ensure_initialized(outcome) ==
    IF model # None
    THEN [model |-> model, data |-> data, qpos |-> qpos, renderer |-> renderer,
          cameras |-> cameras, joint_controls |-> joint_controls,
          loads |-> v_loads, init |-> "skipped", raised |-> FALSE]
    ELSE IF outcome = "load_raises"
    THEN [model |-> model, data |-> data, qpos |-> qpos, renderer |-> renderer,
          cameras |-> cameras, joint_controls |-> joint_controls,
          loads |-> v_loads, init |-> outcome, raised |-> TRUE]
    ELSE IF outcome = "renderer_raises"
    THEN [model |-> "MjModel", data |-> "MjData",
          qpos |-> [j \in ModelJoints |-> 0], renderer |-> renderer,
          cameras |-> cameras, joint_controls |-> joint_controls,
          loads |-> v_loads + 1, init |-> outcome, raised |-> TRUE]
    ELSE [model |-> "MjModel", data |-> "MjData",
          qpos |-> [j \in ModelJoints |-> 0], renderer |-> "Renderer",
          cameras |-> [n \in {CameraSetup[i][1] : i \in 1..Len(CameraSetup)} |->
                          LET i == CHOOSE i \in 1..Len(CameraSetup) : CameraSetup[i][1] = n
                          IN  Camera(CameraSetup[i][2], CameraSetup[i][3])],
          joint_controls |-> [j \in ModelJoints |-> 0],
          loads |-> v_loads + 1, init |-> outcome, raised |-> FALSE]

\* what the log keeps of one request
Handled(route, arg, status, init, controls_after, qpos_after, cam) ==
    [route |-> route, arg |-> arg, status |-> status, init |-> init,
     controls_before |-> joint_controls, controls_after |-> controls_after,
     qpos_before |-> qpos, qpos |-> qpos_after, cam |-> cam]

\* the views asked for: the three cameras and a name that is none of them
Views == {"main", "front", "top", "side"}

\* the frame requests: route /f/<view>, and route /frame, which is frame('main')
FrameRequests == {<<"/f", view>> : view \in Views} \cup {<<"/frame", "main">>}

\* lines 86-108 and 220-233: frame(view), through render_view
Frame ==
    /\ Len(v_log) < MaxRequests
    /\ \E req \in FrameRequests, outcome \in InitOutcomes :
         LET route == req[1]
             view == req[2]
             e    == ensure_initialized(outcome)
             anim == ~e.raised /\ auto_animate
             t1   == IF anim THEN anim_time + 1 ELSE anim_time
             jc1  == IF anim THEN [j \in DOMAIN e.joint_controls |-> AnimValue(t1)]
                     ELSE e.joint_controls
             q1   == IF e.raised THEN e.qpos
                     ELSE [j \in DOMAIN e.qpos |->
                              IF j \in DOMAIN jc1 THEN jc1[j] ELSE e.qpos[j]]
             ok   == ~e.raised /\ "main" \in DOMAIN e.cameras /\ e.renderer # None
         IN  /\ model' = e.model
             /\ data' = e.data
             /\ renderer' = e.renderer
             /\ cameras' = e.cameras
             /\ v_loads' = e.loads
             /\ anim_time' = t1
             /\ joint_controls' = jc1
             /\ qpos' = q1
             /\ v_log' = Append(v_log,
                   Handled(route, view, IF ok THEN 200 ELSE 500, e.init, jc1, q1,
                           IF ~ok THEN None
                           ELSE IF view \in DOMAIN e.cameras THEN view ELSE "main"))
    /\ UNCHANGED outsideViewer

\* lines 215-217: route /
Index ==
    /\ Len(v_log) < MaxRequests
    /\ v_log' = Append(v_log, Handled("/", None, 200, "not_called",
                                      joint_controls, qpos, None))
    /\ UNCHANGED <<model, data, qpos, renderer, cameras, joint_controls,
                   anim_time, v_loads>>
    /\ UNCHANGED outsideViewer

\* lines 236-246: route /joints
Joints ==
    /\ Len(v_log) < MaxRequests
    /\ \E outcome \in InitOutcomes :
         LET e == ensure_initialized(outcome)
         IN  /\ model' = e.model
             /\ data' = e.data
             /\ renderer' = e.renderer
             /\ cameras' = e.cameras
             /\ v_loads' = e.loads
             /\ joint_controls' = e.joint_controls
             /\ qpos' = e.qpos
             /\ v_log' = Append(v_log,
                   Handled("/joints", None, IF e.raised THEN 500 ELSE 200,
                           e.init, e.joint_controls, e.qpos, None))
    /\ UNCHANGED anim_time
    /\ UNCHANGED outsideViewer

\* the JSON bodies posted to /c: the slider's {j, v}, in 1e-6 rad, a body
\* without v, one naming a joint the model has not, and one without j
CtrlBodies ==
    { [j |-> "servo_rotation", v |-> 500000],
      [j |-> "servo_rotation", v |-> -1000000],
      [j |-> "servo_rotation"],
      [j |-> "elbow", v |-> 500000],
      [v |-> 500000] }

\* lines 249-254: route /c
Ctrl ==
    /\ Len(v_log) < MaxRequests
    /\ \E d \in CtrlBodies :
         LET jc1 == IF Get(d, "j", None) \in DOMAIN joint_controls
                    THEN [joint_controls EXCEPT ![d.j] = Get(d, "v", 0)]
                    ELSE joint_controls
         IN  /\ joint_controls' = jc1
             /\ v_log' = Append(v_log, Handled("/c", d, 200, "not_called",
                                               jc1, qpos, None))
    /\ UNCHANGED <<model, data, qpos, renderer, cameras, anim_time, v_loads>>
    /\ UNCHANGED outsideViewer

\* the JSON bodies posted to /cam: the page's {az, el, dist}, dist in mm, and
\* a body with the azimuth alone
CamBodies ==
    { [az |-> 150, el |-> -30, dist |-> 300],
      [az |-> 90] }

\* lines 257-265: route /cam
Cam ==
    /\ Len(v_log) < MaxRequests
    /\ \E outcome \in InitOutcomes, d \in CamBodies :
         LET e  == ensure_initialized(outcome)
             ok == ~e.raised /\ "main" \in DOMAIN e.cameras
         IN  /\ model' = e.model
             /\ data' = e.data
             /\ renderer' = e.renderer
             /\ v_loads' = e.loads
             /\ joint_controls' = e.joint_controls
             /\ qpos' = e.qpos
             /\ cameras' =
                  IF ~ok THEN e.cameras
                  ELSE LET c == e.cameras["main"]
                       IN  [e.cameras EXCEPT !["main"] =
                              [azimuth   |-> Get(d, "az", c.azimuth),
                               elevation |-> Get(d, "el", c.elevation),
                               distance  |-> Get(d, "dist", c.distance),
                               lookat    |-> c.lookat]]
             /\ v_log' = Append(v_log,
                   Handled("/cam", d, IF ok THEN 200 ELSE 500, e.init,
                           e.joint_controls, e.qpos, None))
    /\ UNCHANGED anim_time
    /\ UNCHANGED outsideViewer

ViewerNext == Index \/ Frame \/ Joints \/ Ctrl \/ Cam

InitViewer ==
    /\ ViewerIdle
    /\ ConverterIdle
    /\ AnalyzeIdle
    /\ TransformIdle
    /\ ClientIdle
    /\ ExploreIdle
    /\ ExportIdle

SpecViewer == InitViewer /\ [][ViewerNext]_vars

\* ------------------------------------------------------------------------
\* Reading the written document
\* ------------------------------------------------------------------------

\* the document main wrote
Out == file.text

\* whether the run has written robot.xml
Written == file.written

\* number of body elements open at element i of the document
Depth(doc, i) ==
    Cardinality({j \in 1..(i-1) : doc[j].el = "body"})
      - Cardinality({j \in 1..(i-1) : doc[j].el = "/body"})

\* the body elements of the document
Bodies(doc) == {i \in 1..Len(doc) : doc[i].el = "body"}

\* the body element i is nested in directly, 0 at the top level
ParentOf(doc, i) ==
    LET up == {j \in Bodies(doc) : j < i /\ Depth(doc, j) = Depth(doc, i) - 1}
    IN  IF up = {} THEN 0 ELSE CHOOSE j \in up : \A k \in up : k <= j

\* the elements of a kind directly inside body b
ChildrenOf(doc, b, kind) ==
    {i \in 1..Len(doc) : doc[i].el = kind /\ ParentOf(doc, i) = b}

\* the mesh files body b refers to, through its geom and the asset of that name
MeshFilesOf(doc, b) ==
    {doc[a].ref : a \in {a \in 1..Len(doc) :
        /\ doc[a].el = "mesh"
        /\ \E g \in ChildrenOf(doc, b, "geom") : doc[g].ref = doc[a].name}}

\* the instances whose exported mesh body b shows
InstancesOf(doc, b) ==
    {meshes[m].instanceId : m \in {m \in 1..Len(meshes) :
        meshes[m].filename \in MeshFilesOf(doc, b)}}

\* the body built from instance id, 0 if none
BodyOf(doc, id) ==
    LET bs == {b \in Bodies(doc) : id \in InstancesOf(doc, b)}
    IN  IF bs = {} THEN 0 ELSE CHOOSE b \in bs : TRUE

\* world position of the occurrence keyed id: flat offsets 3, 7, 11
WorldPos(id) ==
    LET o == CHOOSE i \in 1..Len(occurrences) : occurrences[i].path[1] = id
        t == occurrences[o].transform
    IN  <<t[4], t[8], t[12]>>

\* rotation columns of the occurrence keyed id: flat offsets 0..2, 4..6, 8..10
WorldRot(id) ==
    LET o == CHOOSE i \in 1..Len(occurrences) : occurrences[i].path[1] = id
        t == occurrences[o].transform
    IN  <<t[1], t[2], t[3], t[5], t[6], t[7], t[9], t[10], t[11]>>

\* the occurrences marked fixed
FixedKeys == {occurrences[i].path[1] : i \in {i \in 1..Len(occurrences) : occurrences[i].fixed}}

\* the outermost body elements
RootBodies(doc) == {b \in Bodies(doc) : ParentOf(doc, b) = 0}

\* the mates of the input that are of the given type
MatesOfType(type) == {k \in 1..Len(features) : features[k].mateType = type}

\* the two participants of mate k
Participants(k) ==
    {features[k].matedEntities[e].matedOccurrence[1] : e \in 1..2}

\* ------------------------------------------------------------------------
\* Claims about converter.main
\* ------------------------------------------------------------------------

\* C1: when exactly one occurrence is fixed and the run completes, the root
\* body of the output is built from the fixed occurrence: it shows the mesh
\* exported for that instance id and stands at that occurrence's position,
\* whatever the instances are called.
C1_RootIsFixedOccurrence ==
    (pc = "done" /\ Cardinality(FixedKeys) = 1) =>
        \A b \in RootBodies(Out) : \A f \in FixedKeys :
            /\ InstancesOf(Out, b) = {f}
            /\ Out[b].pos = fmt_pos(WorldPos(f))

\* C2: every non-root body of the output stands at the difference of the world
\* positions of its own occurrence and of the occurrence of the body it is
\* nested in, written with six decimals.
C2_LocalPositionIsDifference ==
    Written =>
        \A b \in Bodies(Out) : ParentOf(Out, b) # 0 =>
            /\ Cardinality(InstancesOf(Out, b)) = 1
            /\ Cardinality(InstancesOf(Out, ParentOf(Out, b))) = 1
            /\ \A c \in InstancesOf(Out, b) : \A p \in InstancesOf(Out, ParentOf(Out, b)) :
                  Out[b].pos = fmt_pos(VecSub(WorldPos(c), WorldPos(p)))

\* C2 witness: a written document with a child at its parent's world position
\* but another orientation (offset zero), and a child at another position.
C2_Witness ==
    /\ Written
    /\ \E b \in Bodies(Out) : \E c \in InstancesOf(Out, b) :
       \E p \in InstancesOf(Out, ParentOf(Out, b)) :
            /\ ParentOf(Out, b) # 0
            /\ WorldPos(c) = WorldPos(p) /\ WorldRot(c) # WorldRot(p)
            /\ Out[b].pos = <<(<<"", 0>>), (<<"", 0>>), (<<"", 0>>)>>
    /\ \E b \in Bodies(Out) : \E c \in InstancesOf(Out, b) :
       \E p \in InstancesOf(Out, ParentOf(Out, b)) :
            /\ ParentOf(Out, b) # 0
            /\ WorldPos(c) # WorldPos(p)
            /\ Out[b].pos # <<(<<"", 0>>), (<<"", 0>>), (<<"", 0>>)>>

\* the mate types that classify to a joint
JointMateTypes == {"REVOLUTE", "SLIDER", "CYLINDRICAL", "BALL"}

\* C3: when no mate of the input classifies to a joint and the run completes,
\* the output holds no joint element and no actuator element.
C3_NoMateNoJoint ==
    (pc = "done" /\ \A k \in 1..Len(features) : features[k].mateType \notin JointMateTypes) =>
        \A i \in 1..Len(Out) : Out[i].el \notin {"joint", "motor"}

\* C4: the axis of the joint element equals the principal axis of the mate
\* connector of the mate that produced the joint.
C4_JointAxisIsConnectorAxis ==
    (pc = "done" /\ Cardinality(MatesOfType("CYLINDRICAL")) = 1) =>
        \A k \in MatesOfType("CYLINDRICAL") : \A i \in 1..Len(Out) :
            Out[i].el = "joint" => Out[i].axis = features[k].matedEntities[1].matedCS.zAxis

\* C5: the body that holds the joint element and the body it is nested in are
\* built from the two participants of the moving mate.
C5_JointBodiesAreMateParticipants ==
    (pc = "done" /\ Cardinality(MatesOfType("CYLINDRICAL")) = 1) =>
        \A k \in MatesOfType("CYLINDRICAL") : \A i \in 1..Len(Out) :
            Out[i].el = "joint" =>
                InstancesOf(Out, ParentOf(Out, i))
                  \cup InstancesOf(Out, ParentOf(Out, ParentOf(Out, i))) = Participants(k)

\* the four ids main uses for the bodies, as the names of the input decide them
RoleIds == {LastWithRole(role) : role \in {"motor", "horn", "joint1", "joint2"}}

\* every lookup of main succeeds on the input
AllLookupsSucceed ==
    /\ HasKey(InstancesD, FindFixedId) /\ HasKey(OccurrencesD, FindFixedId)
    /\ \A i \in 1..Len(occurrences) : HasKey(InstancesD, occurrences[i].path[1])
    /\ \A k \in MatesOfType("CYLINDRICAL") : \A id \in Participants(k) : HasKey(InstancesD, id)
    /\ \A id \in RoleIds : HasKey(OccurrencesD, id) /\ HasKey(MeshMap, id)

\* C6: robot.xml is written only by a run in which every lookup succeeded and
\* the complete text was built, and it then holds that text; a run that ended
\* in an exception has not touched the file.
C6_WrittenOnlyWhenComplete ==
    /\ Written => /\ pc = "done" /\ err = None
                  /\ AllLookupsSucceed
                  /\ mjcf # NoText /\ Out = mjcf
    /\ pc = "error" => file = Untouched

\* C6 witness: a run that failed at its last lookup (a mesh file, while the
\* text was being built) with robot.xml untouched.
C6_Witness ==
    /\ pc = "error" /\ err = "KeyError"
    /\ \A id \in RoleIds : HasKey(OccurrencesD, id)
    /\ \E id \in RoleIds : ~HasKey(MeshMap, id)
    /\ file = Untouched

\* no occurrence is fixed and no instance name holds 'motor'
NoRootFound == FixedKeys = {} /\ \A i \in 1..Len(instances) : ~InLower("motor", instances[i].name)

\* the root found has no occurrence under its key
RootOccurrenceMissing ==
    /\ FindFixedId # None
    /\ \A i \in 1..Len(occurrences) : occurrences[i].path[1] # FindFixedId

\* the jointed body (horn) or the body it is nested in (motor) has no occurrence
JointBodyOccurrenceMissing ==
    \E id \in {LastWithRole("motor"), LastWithRole("horn")} :
        \A i \in 1..Len(occurrences) : occurrences[i].path[1] # id

\* C7: on an input with no root, or whose root or a body of the joint has no
\* occurrence, the run never gets past the lookups and never writes robot.xml:
\* it is still before the failing lookup or has ended in a KeyError.
C7_MissingOccurrenceIsFatal ==
    (NoRootFound \/ RootOccurrenceMissing \/ JointBodyOccurrenceMissing) =>
        /\ pc \in {"find_fixed", "base_transform", "part_positions", "find_mate",
                   "assign_by_name", "get_transforms", "error"}
        /\ file = Untouched
        /\ pc = "error" => err = "KeyError"

\* C7 witness: a run that found its root and failed on the missing occurrence
\* of the horn or the motor.
C7_Witness ==
    /\ pc = "error"
    /\ JointBodyOccurrenceMissing
    /\ ~NoRootFound /\ ~RootOccurrenceMissing
    /\ fixed_id # None /\ joint1_id # Unbound
    /\ file = Untouched

\* C8: a body whose instance has no entry in the mesh manifest does not end
\* the run: when every other lookup succeeds the run completes.
C8_MissingGeometryIsNotFatal ==
    ( /\ HasKey(InstancesD, FindFixedId) /\ HasKey(OccurrencesD, FindFixedId)
      /\ \A i \in 1..Len(occurrences) : HasKey(InstancesD, occurrences[i].path[1])
      /\ \A k \in MatesOfType("CYLINDRICAL") : \A id \in Participants(k) : HasKey(InstancesD, id)
      /\ \A id \in RoleIds : HasKey(OccurrencesD, id)
      /\ \E id \in RoleIds : ~HasKey(MeshMap, id) ) =>
        pc # "error"

\* the reference assembly: four parts, one per role of the naming convention,
\* the motor fixed, every occurrence and mesh present, and one cylindrical
\* mate between the root and the mover
ValidFourPart ==
    /\ Len(instances) = 4 /\ Len(occurrences) = 4 /\ Len(meshes) = 4
    /\ \A role \in {"motor", "horn", "joint1", "joint2"} :
         \E i \in 1..4 : NameRole(instances[i].name) = role
    /\ \A id \in RoleIds : HasKey(OccurrencesD, id) /\ HasKey(MeshMap, id)
    /\ FixedKeys = {LastWithRole("motor")}
    /\ Len(features) = 1 /\ features[1].mateType = "CYLINDRICAL"
    /\ Participants(1) = {LastWithRole("motor"), LastWithRole("horn")}

\* C9: for the reference assembly the run does not fail, and the document it
\* writes has four bodies, the root first; the mover directly in the root; one
\* static part directly in the root and the other directly in the mover; one
\* joint element, directly in the mover; one actuator, referring to that joint.
C9_ReferenceAssemblyStructure ==
    ValidFourPart =>
        /\ pc # "error"
        /\ pc = "done" =>
            LET root   == BodyOf(Out, CHOOSE f \in FixedKeys : TRUE)
                mover  == BodyOf(Out, CHOOSE m \in Participants(1) : m \notin FixedKeys)
                static == {BodyOf(Out, s) : s \in RoleIds \ Participants(1)}
                jts    == {i \in 1..Len(Out) : Out[i].el = "joint"}
                acts   == {i \in 1..Len(Out) : Out[i].el = "motor"}
            IN  /\ Cardinality(Bodies(Out)) = 4
                /\ Cardinality({root, mover} \cup static) = 4
                /\ 0 \notin ({root, mover} \cup static)
                /\ ParentOf(Out, root) = 0
                /\ \A b \in Bodies(Out) : root <= b
                /\ ParentOf(Out, mover) = root
                /\ {ParentOf(Out, s) : s \in static} = {root, mover}
                /\ Cardinality(jts) = 1
                /\ \A j \in jts : ParentOf(Out, j) = mover
                /\ Cardinality(acts) = 1
                /\ \A a \in acts : \A j \in jts : Out[a].ref = Out[j].name

\* C9 witness: the document written for a reference assembly.
C9_Witness == pc = "done" /\ Written /\ ValidFourPart

\* ------------------------------------------------------------------------
\* Claims about analyze_for_mujoco
\* ------------------------------------------------------------------------

\* the value of the last mateType parameter of a feature
TypeTagOf(feat) ==
    LET ps == {i \in 1..Len(feat.parameters) : feat.parameters[i].parameterId = "mateType"}
    IN  IF ps = {} THEN Absent
        ELSE feat.parameters[CHOOSE i \in ps : \A j \in ps : j <= i].value

\* the places of the unsuppressed mates among the first n features
AnalyzedUpTo(n) ==
    {k \in 1..n : feature_list[k].featureType = "mate" /\ ~feature_list[k].suppressed}

\* the joint kind the fixed mapping gives the five simple mate types
ExpectedKind(tag) ==
    CASE tag = "FASTENED" -> None
      [] tag = "PARALLEL" -> None
      [] tag = "REVOLUTE" -> "hinge"
      [] tag = "SLIDER"   -> "slide"
      [] tag = "BALL"     -> "ball"

\* C10: every unsuppressed mate feature the loop has passed has its own entry
\* in analysis['joints'], in feature order, and the entry of a FASTENED,
\* PARALLEL, REVOLUTE, SLIDER or BALL mate carries the joint kind of the fixed
\* mapping, whatever the other features of the list are.
C10_SimpleMatesClassifiedByMapping ==
    a_pc \in {"loop", "done"} =>
        LET done == AnalyzedUpTo(a_idx - 1)
        IN  /\ Len(joints) = Cardinality(done)
            /\ \A k \in done :
                 LET j == Cardinality({m \in done : m <= k})
                 IN  /\ joints[j].name = feature_list[k].name
                     /\ TypeTagOf(feature_list[k])
                           \in {"FASTENED", "PARALLEL", "REVOLUTE", "SLIDER", "BALL"} =>
                         /\ joints[j].onshape_type = TypeTagOf(feature_list[k])
                         /\ joints[j].mujoco_type = ExpectedKind(TypeTagOf(feature_list[k]))

\* C10 witness: a finished analysis of a list holding a slider mate after a
\* mate of another type and a suppressed or non-mate feature.
C10_Witness ==
    /\ a_pc = "done"
    /\ \E k \in AnalyzedUpTo(Len(feature_list)) :
         /\ TypeTagOf(feature_list[k]) = "SLIDER"
         /\ \E m \in 1..(k-1) : m \in AnalyzedUpTo(Len(feature_list))
                                 /\ TypeTagOf(feature_list[m]) \notin {"SLIDER", Absent}
         /\ \E m \in 1..(k-1) : m \notin AnalyzedUpTo(Len(feature_list))
    /\ \E j \in 1..Len(joints) : joints[j].mujoco_type = "slide"

\* the position in analysis['joints'] of the entry of feature k
JointOf(k) == Cardinality({m \in AnalyzedUpTo(k) : m <= k})

\* the entries of potential_issues that name feature k
IssuesOf(k) ==
    {i \in 1..Len(potential_issues) : potential_issues[i][3] = feature_list[k].name}

\* C11: the entry of every unsuppressed CYLINDRICAL mate the loop has passed
\* carries the joint kind hinge, the type of the joint element converter.main
\* writes for the cylindrical mate.
C11_CylindricalIsHinge ==
    a_pc \in {"loop", "done"} =>
        \A k \in AnalyzedUpTo(a_idx - 1) :
            TypeTagOf(feature_list[k]) = "CYLINDRICAL" =>
                joints[JointOf(k)].mujoco_type = JointTypeText

\* C12: the entry of every unsuppressed PLANAR mate the loop has passed
\* carries no joint kind, and potential_issues holds an entry naming the mate.
C12_PlanarIsFlaggedNoJoint ==
    a_pc \in {"loop", "done"} =>
        \A k \in AnalyzedUpTo(a_idx - 1) :
            TypeTagOf(feature_list[k]) = "PLANAR" =>
                /\ joints[JointOf(k)].mujoco_type = None
                /\ IssuesOf(k) # {}

\* the type tags of the mapping
MappingKeys ==
    {"FASTENED", "REVOLUTE", "SLIDER", "CYLINDRICAL", "BALL", "PLANAR", "PARALLEL"}

\* the unsuppressed mates among the first n features whose type tag is outside
\* the mapping (a mate without a type tag counts as one)
Flagged(n) == {k \in AnalyzedUpTo(n) : TypeTagOf(feature_list[k]) \notin MappingKeys}

\* C13: at every point of the loop potential_issues holds exactly one entry per
\* unsuppressed mate passed whose type tag is outside the mapping, in feature
\* order and naming the mate and the tag; every unsuppressed mate passed, also
\* one that follows such a tag, has its entry in analysis['joints']; the
\* analysis ends only after the last feature, with both lists in place.
C13_UnknownTagsAreDiagnosed ==
    a_pc \in {"loop", "done"} =>
        LET done == AnalyzedUpTo(a_idx - 1)
            fl   == Flagged(a_idx - 1)
        IN  /\ Len(potential_issues) = Cardinality(fl)
            /\ \A k \in fl :
                 LET issue == potential_issues[Cardinality({m \in fl : m <= k})]
                     tag   == TypeTagOf(feature_list[k])
                 IN  /\ issue[3] = feature_list[k].name
                     /\ issue[2] = (IF tag = Absent THEN "UNKNOWN" ELSE tag)
                     /\ joints[JointOf(k)].mujoco_type = "unknown"
            /\ Len(joints) = Cardinality(done)
            /\ \A k \in done : joints[JointOf(k)].name = feature_list[k].name
            /\ a_pc = "done" => /\ a_idx = Len(feature_list) + 1
                                /\ summary.total_joints = Len(joints)

\* C13 witness: a finished analysis of a list with two mates of unknown type and
\* a mate of a mapped type classified between them.
C13_Witness ==
    /\ a_pc = "done"
    /\ Len(potential_issues) = 2
    /\ \E k1, k2, k3 \in 1..Len(feature_list) :
         /\ k1 < k2 /\ k2 < k3
         /\ k1 \in Flagged(Len(feature_list)) /\ k3 \in Flagged(Len(feature_list))
         /\ k2 \in AnalyzedUpTo(Len(feature_list)) \ Flagged(Len(feature_list))
         /\ joints[JointOf(k2)].mujoco_type = "hinge"

\* the 16 values of the occurrence keyed id
TransformOf(id) ==
    occurrences[CHOOSE i \in 1..Len(occurrences) : occurrences[i].path[1] = id].transform

\* C14: in every written document a non-root body carries no orientation of
\* its own and exactly one geom, whose orientation is the quaternion
\* transform_to_pos_quat returns for the occurrence of that body, written with
\* six decimals: a function of the body's own transform alone.
C14_OrientationIsOwnQuaternion ==
    Written =>
        \A b \in Bodies(Out) : ParentOf(Out, b) # 0 =>
            /\ Out[b].quat = NoAttr
            /\ Cardinality(ChildrenOf(Out, b, "geom")) = 1
            /\ Cardinality(InstancesOf(Out, b)) = 1
            /\ \A g \in ChildrenOf(Out, b, "geom") : \A c \in InstancesOf(Out, b) :
                 Out[g].quat = fmt_quat(transform_to_pos_quat(TransformOf(c)).quat)

\* C14 witness: a written document with an unrotated non-root body, written
\* unrotated, under a rotated parent, and with a rotated non-root body, written
\* rotated.
C14_Witness ==
    /\ Written
    /\ \E b \in Bodies(Out) : \E c \in InstancesOf(Out, b) :
       \E p \in InstancesOf(Out, ParentOf(Out, b)) : \E g \in ChildrenOf(Out, b, "geom") :
            /\ ParentOf(Out, b) # 0
            /\ WorldRot(c) = <<1, 0, 0, 0, 1, 0, 0, 0, 1>>
            /\ WorldRot(p) # WorldRot(c)
            /\ Out[g].quat = <<(<<"", 1000000>>), (<<"", 0>>), (<<"", 0>>), (<<"", 0>>)>>
    /\ \E b \in Bodies(Out) : \E c \in InstancesOf(Out, b) :
       \E g \in ChildrenOf(Out, b, "geom") :
            /\ ParentOf(Out, b) # 0
            /\ WorldRot(c) # <<1, 0, 0, 0, 1, 0, 0, 0, 1>>
            /\ Out[g].quat # <<(<<"", 1000000>>), (<<"", 0>>), (<<"", 0>>), (<<"", 0>>)>>

\* ------------------------------------------------------------------------
\* Claims about transform_to_pos_quat
\* ------------------------------------------------------------------------

\* the rotation matrix of the quaternion (w, x, y, z), by rows, times the
\* squared norm of the quaternion
MatrixOfWxyz(q) ==
    LET w == q[1]
        x == q[2]
        y == q[3]
        z == q[4]
    IN  << <<w*w + x*x - y*y - z*z, 2 * (x*y - w*z),       2 * (x*z + w*y)>>,
           <<2 * (x*y + w*z),       w*w - x*x + y*y - z*z, 2 * (y*z - w*x)>>,
           <<2 * (x*z - w*y),       2 * (y*z + w*x),       w*w - x*x - y*y + z*z>> >>

\* squared norm of a quaternion
Norm2(q) == q[1]*q[1] + q[2]*q[2] + q[3]*q[3] + q[4]*q[4]

\* the quaternion q stands for the rotation matrix m (given by rows)
IsQuatOf(q, m) ==
    /\ Norm2(q) > 0
    /\ \A i, j \in 1..3 : MatrixOfWxyz(q)[i][j] = Norm2(q) * m[i][j]

\* the matrix whose three columns are the triples at flat offsets (0,4,8),
\* (1,5,9) and (2,6,10) of t, by rows
MatrixOfColumns(t) ==
    << <<t[1], t[2], t[3]>>,
       <<t[5], t[6], t[7]>>,
       <<t[9], t[10], t[11]>> >>

\* the matrix whose three rows are those triples
MatrixOfRows(t) ==
    << <<t[1], t[5], t[9]>>,
       <<t[2], t[6], t[10]>>,
       <<t[3], t[7], t[11]>> >>

\* C15: the position returned is the triple at flat offsets 3, 7, 11 and the
\* quaternion returned stands for the rotation matrix whose columns are the
\* triples at offsets (0,4,8), (1,5,9), (2,6,10); the values at offsets 12 to
\* 15 do not enter.
C15_LayoutOfTransform ==
    t_pc = "return" =>
        /\ t_ret.pos = <<t_arg[4], t_arg[8], t_arg[12]>>
        /\ IsQuatOf(t_ret.quat, MatrixOfColumns(t_arg))

\* C16: the quaternion returned is in (w, x, y, z) order, that is, as a
\* (w, x, y, z) quaternion it stands for the rotation matrix handed to the
\* rotation library, and its scalar part w is not negative.
C16_QuatIsWxyzCanonical ==
    t_pc = "return" =>
        /\ IsQuatOf(t_ret.quat, MatrixOfRows(t_arg))
        /\ t_ret.quat[1] >= 0

\* ------------------------------------------------------------------------
\* Claims about converter.main and its input tables
\* ------------------------------------------------------------------------

\* determinant of a 3x3 matrix
Det3(m) ==
      m[1][1] * (m[2][2]*m[3][3] - m[2][3]*m[3][2])
    - m[1][2] * (m[2][1]*m[3][3] - m[2][3]*m[3][1])
    + m[1][3] * (m[2][1]*m[3][2] - m[2][2]*m[3][1])

\* the rotation block of t is not orthonormal: its determinant is not 1, its
\* columns are not unit vectors at right angles, or one of them is zero
NotOrthonormal(t) ==
    LET m == MatrixOfColumns(t)
        Dot(i, j) == m[i][1]*m[j][1] + m[i][2]*m[j][2] + m[i][3]*m[j][3]
    IN  \/ Det3(m) # 1
        \/ \E i, j \in 1..3 : Dot(i, j) # (IF i = j THEN 1 ELSE 0)

\* C17: on an input with an occurrence whose rotation block is not
\* orthonormal the run never completes and never writes robot.xml.
C17_InvalidTransformIsFatal ==
    (\E i \in 1..Len(occurrences) : NotOrthonormal(occurrences[i].transform)) =>
        /\ pc # "done"
        /\ ~Written

\* C19: when no occurrence is fixed and the run completes, the instance found
\* by the name fallback and printed as the base is the instance the root body
\* of the document is built from.
C19_FallbackBaseIsRootBody ==
    (pc = "done" /\ FixedKeys = {}) =>
        /\ log[1] = <<"Base (fixed)", DictGet(InstancesD, fixed_id).name>>
        /\ \A b \in RootBodies(Out) : InstancesOf(Out, b) = {fixed_id}

\* C20: the occurrence table of a run has one entry per occurrence of the
\* input, and the entry under the first path element of an occurrence holds
\* that occurrence's own transform.
C20_OccurrenceTableKeepsAll ==
    pc # "idle" =>
        /\ Len(DictKeys(OccurrencesD)) = Len(occurrences)
        /\ \A i \in 1..Len(occurrences) :
             DictGet(OccurrencesD, occurrences[i].path[1]).transform
                = occurrences[i].transform

\* ------------------------------------------------------------------------
\* Claims about OnshapeClient.get_binary
\* ------------------------------------------------------------------------

\* the string a request's signature was computed over
SignedOf(request) == request.headers.Authorization.signature.msg

\* C18: once the first response is in, either it is a 307 with a Location and
\* exactly one further request has been sent, to the Location URL, signed with
\* the nonce of its own headers over the path and the query string of that URL
\* as they stand in it (in lower case, as the whole signed string is), and the
\* second response is the one returned; or no second request is sent and the
\* first response is the one checked and returned.
C18_RedirectIsReauthenticated ==
    c_pc \in {"second_response", "check", "done", "HTTPError"} =>
        LET first == c_received[1]
        IN  IF first.status = 307 /\ first.has_location /\ first.location # <<>>
            THEN /\ Len(c_sent) = 2
                 /\ c_sent[2].url = first.location
                 /\ SignedOf(c_sent[2]).nonce = Lower(c_sent[2].headers.OnNonce)
                 /\ SignedOf(c_sent[2]).path = Lower(urlparse(first.location).path)
                 /\ SignedOf(c_sent[2]).query = Lower(urlparse(first.location).query)
                 /\ c_pc = "done" => c_ret = c_received[2].content
            ELSE /\ Len(c_sent) = 1 /\ Len(c_received) = 1
                 /\ c_pc # "second_response"
                 /\ c_pc = "done" => (c_ret = first.content /\ first.status < 400)
                 /\ c_pc = "HTTPError" => first.status >= 400

\* ------------------------------------------------------------------------
\* Claims about explore_transforms
\* ------------------------------------------------------------------------

\* the top-level occurrences among the first n of the list
TopLevelUpTo(n) == {k \in 1..n : Len(x_occurrences[k].path) = 1}

\* C21: the position explore_transforms prints for a top-level occurrence is
\* the position transform_to_pos_quat returns for the same transform, written
\* with four decimals.
C21_PrintedPositionIsConverterPosition ==
    x_pc \in {"loop", "done"} =>
        LET done == TopLevelUpTo(x_idx - 1)
        IN  /\ Len(x_printed) = Cardinality(done)
            /\ \A k \in done :
                 LET line == x_printed[Cardinality({m \in done : m <= k})]
                     t    == x_occurrences[k].transform
                     pos  == transform_to_pos_quat(t).pos
                 IN  t # <<>> =>
                        line.position = <<Fmt4(pos[1]), Fmt4(pos[2]), Fmt4(pos[3])>>

\* ------------------------------------------------------------------------
\* Claims about export_meshes
\* ------------------------------------------------------------------------

\* the Part instances of the list, by position
PartInstances == {i \in 1..Len(m_instances) : m_instances[i].type = "Part"}

\* the first Part instance that carries the key of instance i
FirstOfKey(i) ==
    CHOOSE f \in PartInstances :
        /\ PartKey(m_instances[f]) = PartKey(m_instances[i])
        /\ \A g \in PartInstances :
              PartKey(m_instances[g]) = PartKey(m_instances[i]) => f <= g

\* the manifest entries written for instance i
EntriesOf(i) == {n \in 1..Len(exported) : exported[n].instanceId = m_instances[i].id}

\* the manifest entries written for any instance with the key of instance i
EntriesOfKey(i) ==
    UNION {EntriesOf(j) : j \in {p \in PartInstances :
                                    PartKey(m_instances[p]) = PartKey(m_instances[i])}}

\* instance i has a complete id
CompleteId(i) ==
    /\ Truthy(m_instances[i].partId)
    /\ Truthy(m_instances[i].documentId)
    /\ Truthy(m_instances[i].elementId)

\* the export of instance i was attempted and raised
ExportFailed(i) ==
    \E c \in 1..Len(m_calls) : m_calls[c].at = i /\ m_calls[c].outcome # "ok"

\* C22: export_meshes attempts each (documentId, elementId, partId) triple at
\* most once, through the first Part instance that carries it; the manifest
\* holds at most one entry per triple, under that first instance's id; a
\* triple whose first instance failed to export or has an incomplete id has no
\* entry, whatever instances follow; and a later instance of a triple has no
\* entry under its own id.
C22_OneAttemptPerPartKey ==
    m_pc \in {"loop", "done"} =>
        /\ \A c \in 1..Len(m_calls) :
              /\ m_calls[c].at \in PartInstances
              /\ m_calls[c].key = PartKey(m_instances[m_calls[c].at])
              /\ m_calls[c].at = FirstOfKey(m_calls[c].at)
              /\ \A d \in 1..Len(m_calls) : m_calls[d].key = m_calls[c].key => d = c
        /\ \A n \in 1..Len(exported) :
              \E i \in PartInstances : exported[n].instanceId = m_instances[i].id
        /\ \A i \in PartInstances :
              /\ Cardinality(EntriesOfKey(i)) <= 1
              /\ EntriesOfKey(i) = EntriesOf(FirstOfKey(i))
              /\ i # FirstOfKey(i) => EntriesOf(i) = {}
              /\ (FirstOfKey(i) < m_idx
                  /\ (~CompleteId(FirstOfKey(i)) \/ ExportFailed(FirstOfKey(i))))
                    => EntriesOfKey(i) = {}

\* the list is finished; one part was exported through its first instance and
\* has a second instance; another part failed through its first instance and
\* has a second instance that was not tried
C22_Witness ==
    /\ m_pc = "done"
    /\ \E i, j \in PartInstances :
          /\ i < j
          /\ FirstOfKey(j) = i
          /\ EntriesOf(i) # {}
          /\ EntriesOf(j) = {}
    /\ \E i, j \in PartInstances :
          /\ i < j
          /\ FirstOfKey(j) = i
          /\ CompleteId(j)
          /\ ExportFailed(i)
          /\ EntriesOfKey(j) = {}
          /\ Len(m_calls) = 2

\* ------------------------------------------------------------------------
\* Claims about the viewer
\* ------------------------------------------------------------------------

\* request n of the log asked for a frame
IsFrame(n) == v_log[n].route \in {"/f", "/frame"}

\* request n of the log posted a value for joint j
IsCtrlOf(n, j) == v_log[n].route = "/c" /\ Get(v_log[n].arg, "j", None) = j

\* C23: after a POST to /c has set a known joint j to v, the next frame
\* rendered shows qpos[j] = v, whatever requests come between; a POST naming
\* an unknown joint, or arriving before the model is initialized, changes no
\* joint value.
C23_DirectJointControl ==
    \A a \in 1..Len(v_log) :
        v_log[a].route = "/c" =>
            LET d == v_log[a].arg
                j == Get(d, "j", None)
            IN  IF j \in DOMAIN v_log[a].controls_before
                THEN \A b \in (a + 1)..Len(v_log) :
                        ( /\ IsFrame(b)
                          /\ v_log[b].status = 200
                          /\ \A m \in (a + 1)..(b - 1) :
                                ~IsFrame(m) /\ ~IsCtrlOf(m, j) )
                        => v_log[b].qpos[j] = Get(d, "v", 0)
                ELSE /\ v_log[a].controls_after = v_log[a].controls_before
                     /\ v_log[a].qpos = v_log[a].qpos_before

\* request n of the log ran ensure_initialized and it raised
InitFailed(n) == v_log[n].init \in {"load_raises", "renderer_raises"}

\* C24: in every state a loaded model comes with data, the renderer and the
\* cameras main, front and top, also after an ensure_initialized that raised
\* part-way; the model is loaded at most once; and a request that calls
\* ensure_initialized after a failed one, with no completed one between,
\* runs the setup again instead of skipping it.
C24_InitializedOnceAndWhole ==
    /\ model # None =>
          /\ data # None
          /\ renderer # None
          /\ {"main", "front", "top"} \subseteq DOMAIN cameras
    /\ v_loads <= 1
    /\ \A a \in 1..Len(v_log) : \A b \in (a + 1)..Len(v_log) :
          ( /\ InitFailed(a)
            /\ v_log[b].init # "not_called"
            /\ \A m \in (a + 1)..(b - 1) : v_log[m].init # "ok" )
          => v_log[b].init # "skipped"

====
